---- MODULE Spec2Model ----
(***************************************************************************)
(* Audio feature extraction and heuristic classification engine:           *)
(* InstrumentDetector and MIDIAnalysisService (src/unnamed/part_001),      *)
(* AudioAnalyzer and AlgorithmicTaggingService                             *)
(* (src/services/algorithmicTaggingService.ts) and the retention store     *)
(* they write to (src/services/dataRetentionService.ts).                   *)
(*                                                                         *)
(* Number model.  JavaScript numbers are kept on fixed-point grids:        *)
(*   sample amplitudes ............................ hundredths             *)
(*   squared samples and their sums ............... 1/10000                *)
(*   RMS values and ratios ........................ thousandths            *)
(*   times (attack, decay) ........................ microseconds           *)
(*   frequencies (centroid, rolloff) .............. Hz (floor)             *)
(*   spectral magnitudes .......................... integers               *)
(* A value is a record: Num(v), NaN, or LogOf(s) for Math.log(s + 1e-10)   *)
(* of a magnitude sum s, which is kept symbolic.                           *)
(***************************************************************************)
EXTENDS Integers, Sequences, FiniteSets, TLC

(***************************************************************************)
(* Bounds of the model.                                                    *)
(***************************************************************************)
MaxRuns == 2

(***************************************************************************)
(* Program constants.                                                      *)
(***************************************************************************)
windowSize == 1024
hopSize == 512
fftSize == 2048
numFilters == 13

(***************************************************************************)
(* JavaScript number values.                                               *)
(***************************************************************************)
Num(v) == [k |-> "num", v |-> v]
NaN == [k |-> "nan", v |-> 0]
LogOf(s) == [k |-> "log", v |-> s]

IsNum(x) == x.k = "num"
\* comparisons against a literal; any comparison with NaN is false
Lt(x, c) == x.k = "num" /\ x.v < c
Gt(x, c) == x.k = "num" /\ x.v > c
Le(x, c) == x.k = "num" /\ x.v <= c
Ge(x, c) == x.k = "num" /\ x.v >= c

Min2(a, b) == IF a < b THEN a ELSE b
Max2(a, b) == IF a > b THEN a ELSE b
Abs(a) == IF a < 0 THEN -a ELSE a

\* Math.round(p / q) for p >= 0, q > 0: halves round up
RoundDiv(p, q) == (2 * p + q) \div (2 * q)

RECURSIVE SqrtSearch(_, _, _)
SqrtSearch(n, lo, hi) ==
    IF lo >= hi THEN lo
    ELSE LET mid == (lo + hi + 1) \div 2
         IN  IF mid * mid <= n THEN SqrtSearch(n, mid, hi)
                               ELSE SqrtSearch(n, lo, mid - 1)
\* Math.sqrt on the grid: the floor of the square root
Sqrt(n) == SqrtSearch(n, 0, Min2(n, 46340))

RECURSIVE SumSeq(_)
SumSeq(s) == IF s = <<>> THEN 0 ELSE Head(s) + SumSeq(Tail(s))

RECURSIVE MaxSeq(_)
MaxSeq(s) == IF Len(s) = 1 THEN s[1] ELSE Max2(Head(s), MaxSeq(Tail(s)))

RECURSIVE SumOver(_, _)
\* sum of f[x] over the finite set S
SumOver(f, S) ==
    IF S = {} THEN 0
    ELSE LET x == CHOOSE y \in S : TRUE
         IN  f[x] + SumOver(f, S \ {x})

(***************************************************************************)
(* PCM buffers (AudioBuffer channel 0 and its sample rate).  The samples   *)
(* are given run-length encoded: a run is n blocks of hopSize equal        *)
(* samples, and tail holds the samples after the last whole block.         *)
(***************************************************************************)
Amps == {0, 1, 100}
TailAmps == {0, -100}
RunLens == {1, 16}
SampleRates == {8000, 16000, 44100}

Runs == [amp : Amps, n : RunLens]

RECURSIVE SeqsUpTo(_, _)
SeqsUpTo(S, n) ==
    IF n = 0 THEN {<<>>}
    ELSE LET shorter == SeqsUpTo(S, n - 1)
         IN  shorter \cup {Append(s, x) : s \in {t \in shorter : Len(t) = n - 1}, x \in S}

Tails == {<<>>} \cup {<<a>> : a \in TailAmps}

Buffers == [rate : SampleRates, runs : SeqsUpTo(Runs, MaxRuns), tail : Tails]

RECURSIVE NumBlocks(_)
NumBlocks(runs) == IF runs = <<>> THEN 0 ELSE Head(runs).n + NumBlocks(Tail(runs))

RECURSIVE BlockAmp(_, _)
\* the amplitude of the samples of block j, 1 <= j <= NumBlocks(runs)
BlockAmp(runs, j) ==
    IF j <= Head(runs).n THEN Head(runs).amp ELSE BlockAmp(Tail(runs), j - Head(runs).n)

\* channelData.length
Length(buf) == hopSize * NumBlocks(buf.runs) + Len(buf.tail)

\* channelData[i], 0 <= i < length
SampleAt(buf, i) ==
    IF i < hopSize * NumBlocks(buf.runs) THEN BlockAmp(buf.runs, (i \div hopSize) + 1)
    ELSE buf.tail[i - hopSize * NumBlocks(buf.runs) + 1]

RECURSIVE Blocks(_)
\* the amplitude of every block of hopSize samples, in order
Blocks(runs) ==
    IF runs = <<>> THEN <<>>
    ELSE [i \in 1..Head(runs).n |-> Head(runs).amp] \o Blocks(Tail(runs))

\* sum of val * val over the samples lo..hi-1 of the blocks b and the tail
SquareSumIn(b, tail, lo, hi) ==
    LET nb == Len(b)
        end == Min2(hi, hopSize * nb + Len(tail))
        first == (lo \div hopSize) + 1
        last == Min2(nb, ((end - 1) \div hopSize) + 1)
        overlap(j) == Max2(0, Min2(end, hopSize * j) - Max2(lo, hopSize * (j - 1)))
        inBlocks == SumSeq([k \in 1..(last - first + 1) |->
                        overlap(first + k - 1) * b[first + k - 1] * b[first + k - 1]])
        inTail == SumSeq([t \in 1..Len(tail) |->
                     IF hopSize * nb + t - 1 >= lo /\ hopSize * nb + t - 1 < end
                     THEN tail[t] * tail[t] ELSE 0])
    IN  IF end <= lo THEN 0 ELSE inBlocks + inTail

\* sum of val * val over channelData.slice(lo, hi); slice stops at the end
SquareSum(buf, lo, hi) == SquareSumIn(Blocks(buf.runs), buf.tail, lo, hi)

\* all samples of channelData.slice(lo, hi) are zero
SilentSlice(buf, lo, hi) == SquareSum(buf, lo, hi) = 0
Silent(buf) == SilentSlice(buf, 0, Length(buf))

\* start offsets of "for (let i = 0; i < length - w; i += h)"
WindowStarts(len, w, h) ==
    LET cnt == IF len - w <= 0 THEN 0 ELSE ((len - w - 1) \div h) + 1
    IN  [k \in 1..cnt |-> (k - 1) * h]


\* Math.sqrt(sum / n) in thousandths, for a sum of squares in 1/10000
RootMeanSquare(sum, n) ==
    Sqrt(100 * (sum \div n) + (100 * (sum % n)) \div n)

(***************************************************************************)
(* Onset and tempo estimation.                                             *)
(***************************************************************************)
\* 60 / avgInterval, rounded, for onset offsets given in samples
TempoOfOnsets(onsets, rate) ==
    LET m == Len(onsets)
    IN  RoundDiv(60 * rate * (m - 1), onsets[m] - onsets[1])

\* InstrumentDetector.detectTempo
detectTempo(buf) ==
    LET starts == WindowStarts(Length(buf), windowSize, hopSize)
        b == Blocks(buf.runs)
        isOnset(i) == SquareSumIn(b, buf.tail, i, i + windowSize) > 1000
        onsets == SelectSeq(starts, isOnset)
    IN  IF Len(onsets) < 2 THEN 120 ELSE TempoOfOnsets(onsets, buf.rate)

\* AudioAnalyzer.calculateMagnitude of the samples lo..hi-1 (a whole window)
calculateMagnitude(b, tail, lo, hi) ==
    RootMeanSquare(SquareSumIn(b, tail, lo, hi), hi - lo)

\* AudioAnalyzer.detectBPM
detectBPM(buf) ==
    LET starts == WindowStarts(Length(buf), windowSize, hopSize)
        b == Blocks(buf.runs)
        isOnset(i) == calculateMagnitude(b, buf.tail, i, i + windowSize) > 100
        onsets == SelectSeq(starts, isOnset)
    IN  IF Len(onsets) < 2 THEN 120
        ELSE Max2(60, Min2(200, TempoOfOnsets(onsets, buf.rate)))

(***************************************************************************)
(* Time-domain features of InstrumentDetector.                             *)
(***************************************************************************)
\* (channelData[i] >= 0) of every block, then of every tail sample
SignSeq(buf) ==
    [j \in 1..NumBlocks(buf.runs) |-> BlockAmp(buf.runs, j) >= 0]
        \o [t \in 1..Len(buf.tail) |-> buf.tail[t] >= 0]

calculateZeroCrossingRate(buf) ==
    LET sg == SignSeq(buf)
        crossings == Cardinality({i \in 2..Len(sg) : sg[i] # sg[i - 1]})
    IN  IF Length(buf) = 0 THEN NaN
        ELSE Num((1000 * crossings) \div Length(buf))

calculateEnergy(buf) ==
    IF Length(buf) = 0 THEN NaN
    ELSE Num(RootMeanSquare(SquareSum(buf, 0, Length(buf)), Length(buf)))

\* one RMS value per window, in thousandths
calculateEnvelope(buf) ==
    LET starts == WindowStarts(Length(buf), windowSize, hopSize)
        b == Blocks(buf.runs)
    IN  [k \in 1..Len(starts) |->
            RootMeanSquare(SquareSumIn(b, buf.tail, starts[k], starts[k] + windowSize),
                           windowSize)]

(***************************************************************************)
(* Envelope shape (attack, sustain, decay).                                *)
(***************************************************************************)
\* Math.floor((i / rate) * rate): for these i the double product (i / 44100)
\* * 44100 falls just below i; it is exact for the other rates and indices
FloorOfTimeTimesRate(i, rate) ==
    IF rate = 44100 /\ i \in {15, 23, 30, 46, 53, 60, 92, 106, 120} THEN i - 1 ELSE i

SetMin(S) == CHOOSE x \in S : \A y \in S : x <= y

calculateADSR(buf) ==
    LET envelope == calculateEnvelope(buf)
        n == Len(envelope)
        peak == MaxSeq(envelope)
        reached == {i \in 1..n : 10 * envelope[i] >= 9 * peak}
        attackIndex == IF reached = {} THEN 0 ELSE SetMin(reached) - 1
        sustainStart == FloorOfTimeTimesRate(attackIndex, buf.rate)
        sustainEnd == (4 * n) \div 5
        sustainCount == Max2(0, sustainEnd - sustainStart)
        sustainSum == SumSeq([k \in 1..sustainCount |-> envelope[sustainStart + k]])
        fallen == {i \in 1..n : 2 * envelope[i] <= peak}
        decayIndex == IF fallen = {} THEN 0 ELSE SetMin(fallen) - 1
    IN  IF n = 0
        THEN \* peak is -Infinity, no loop runs, sustain is 0 / -Infinity
             [attack |-> Num(0), sustain |-> Num(0), decay |-> Num(0)]
        ELSE [attack |-> Num((attackIndex * 1000000) \div buf.rate),
              sustain |-> IF peak = 0 THEN NaN
                          ELSE IF sustainCount = 0 THEN Num(0)
                          ELSE Num((1000 * sustainSum) \div (sustainCount * peak)),
              decay |-> Num((decayIndex * 1000000) \div buf.rate)]

(***************************************************************************)
(* Spectral transformer.  The trigonometric sums of simpleFFT are not      *)
(* evaluated: the magnitudes of a sounding window are drawn from the       *)
(* timbre of the file (relative magnitudes of its partials), scaled by the *)
(* largest sample of the window.  What the arithmetic of simpleFFT fixes   *)
(* is kept: one magnitude per sample of the window, symmetric about the    *)
(* middle, and all magnitudes zero for a window of zeros.                  *)
(***************************************************************************)
\* largest |sample| of channelData.slice(lo, hi)
MaxAbs(buf, lo, hi) ==
    LET nb == NumBlocks(buf.runs)
        end == Min2(hi, Length(buf))
        first == (lo \div hopSize) + 1
        last == Min2(nb, ((end - 1) \div hopSize) + 1)
        inBlocks == {Abs(BlockAmp(buf.runs, j)) : j \in first..last}
        inTail == {Abs(buf.tail[t]) : t \in {u \in 1..Len(buf.tail) :
                      hopSize * nb + u - 1 >= lo /\ hopSize * nb + u - 1 < end}}
    IN  IF end <= lo THEN 0
        ELSE CHOOSE m \in inBlocks \cup inTail \cup {0} :
                 \A x \in inBlocks \cup inTail : x <= m

\* simpleFFT(channelData.slice(lo, hi)): len magnitudes, zero outside mag
simpleFFT(buf, timbre, lo, hi) ==
    LET N == Max2(0, Min2(hi, Length(buf)) - lo)
        level == MaxAbs(buf, lo, hi)
        lower == IF level = 0 THEN {} ELSE {b \in DOMAIN timbre : b = 0 \/ 2 * b < N}
        upper == {N - b : b \in lower \ {0}}
    IN  [len |-> N,
         mag |-> [b \in lower \cup upper |->
                    level * (IF b \in lower THEN timbre[b] ELSE timbre[N - b])]]

\* the bins i of "for (let i = 0; i < fft.length / 2; i++)" with fft[i] # 0
LowerHalf(fft) == {b \in DOMAIN fft.mag : 2 * b < fft.len}

\* (i * sampleRate) / fftSize in Hz
BinFrequency(i, rate) == (i * rate) \div fftSize

calculateSpectralCentroid(buf, timbre) ==
    LET fft == simpleFFT(buf, timbre, 0, fftSize)
        bins == LowerHalf(fft)
        magnitudeSum == SumOver(fft.mag, bins)
        weightedSum == SumOver([b \in bins |-> BinFrequency(b, buf.rate) * fft.mag[b]], bins)
    IN  IF magnitudeSum > 0 THEN Num(weightedSum \div magnitudeSum) ELSE Num(0)

calculateSpectralRolloff(buf, timbre) ==
    LET fft == simpleFFT(buf, timbre, 0, fftSize)
        totalEnergy == SumOver(fft.mag, DOMAIN fft.mag)
        cumulative(i) == SumOver(fft.mag, {b \in DOMAIN fft.mag : b <= i})
        \* bins of the loop at which cumulativeEnergy >= 0.85 * totalEnergy
        over == {i \in LowerHalf(fft) \cup (IF fft.len > 0 THEN {0} ELSE {}) :
                    100 * cumulative(i) >= 85 * totalEnergy}
    IN  IF over # {} THEN Num(BinFrequency(SetMin(over), buf.rate))
        ELSE Num(buf.rate \div 2)

\* first bin of mel band i: Math.floor(startFreq * fftSize / sampleRate)
BandStart(i) == (i * fftSize) \div (2 * numFilters)

\* a filter bank that leaves out the bands reaching past the end of the window
calculateMFCC_bandsInWindow(buf, timbre) ==
    LET fft == simpleFFT(buf, timbre, 0, fftSize)
        band(i) == {j \in DOMAIN fft.mag : j >= BandStart(i) /\ j < BandStart(i + 1)}
        kept == Cardinality({f \in 1..numFilters : BandStart(f) <= fft.len})
    IN  [f \in 1..kept |-> LogOf(SumOver(fft.mag, band(f - 1)))]

calculateMFCC(buf, timbre) ==
    LET fft == simpleFFT(buf, timbre, 0, fftSize)
        \* the bins j of band i with fft[j] # 0
        band(i) == {j \in DOMAIN fft.mag : j >= BandStart(i) /\ j < BandStart(i + 1)}
        sum(i) == SumOver(fft.mag, band(i))
    IN  [f \in 1..numFilters |->
            \* fft[j] is undefined past the end of the array: the sum is NaN
            IF BandStart(f) > fft.len THEN NaN ELSE LogOf(sum(f - 1))]

\* SemitoneBound[n + 31] is the least integer x = 2048 * f with
\* Math.round(12 * Math.log2(f / 440)) >= n, for n in -30..43
SemitoneBound ==
    <<
       154763, 163965, 173715, 184045, 194989, 206583,
       218867, 231882, 245670, 260278, 275755, 292153,
       309525, 327930, 347430, 368089, 389977, 413166,
       437734, 463763, 491340, 520556, 551510, 584305,
       619049, 655860, 694859, 736177, 779953, 826331,
       875467, 927525, 982679, 1041112, 1103020, 1168609,
       1238098, 1311719, 1389718, 1472354, 1559905, 1652662,
       1750934, 1855050, 1965357, 2082223, 2206039, 2337217,
       2476195, 2623437, 2779435, 2944708, 3119810, 3305323,
       3501868, 3710100, 3930714, 4164446, 4412077, 4674433,
       4952389, 5246873, 5558869, 5889416, 6239619, 6610646,
       7003735, 7420199, 7861427, 8328892, 8824154, 9348865,
       9904777, 10493746
    >>

\* Math.round(12 * Math.log2(frequency / 440)) for frequency = x / fftSize
Semitone(x) ==
    (CHOOSE k \in 1..Len(SemitoneBound) :
        /\ SemitoneBound[k] <= x
        /\ (k = Len(SemitoneBound) \/ SemitoneBound[k + 1] > x)) - 31

\* the % operator: the sign of the result is the sign of the dividend
JsRem(a, m) == IF a >= 0 THEN a % m ELSE -((-a) % m)

RECURSIVE AccumulateChroma(_, _, _, _)
\* the loop over the given bins: chroma[chromaIndex] += fft[i]
AccumulateChroma(chroma, fft, bins, rate) ==
    IF bins = {} THEN chroma
    ELSE LET b == CHOOSE x \in bins : TRUE
             inRange == b * rate > 80 * fftSize /\ b * rate < 5000 * fftSize
             chromaIndex == JsRem(Semitone(b * rate), 12)
         IN  AccumulateChroma(
                 IF inRange /\ chromaIndex >= 0 /\ chromaIndex < 12
                 THEN [chroma EXCEPT ![chromaIndex + 1] = @ + fft.mag[b]]
                 ELSE chroma,
                 fft, bins \ {b}, rate)

ZeroChroma == [c \in 1..12 |-> 0]

\* InstrumentDetector.calculateChromaFeatures
Detector_calculateChromaFeatures(buf, timbre) ==
    LET fft == simpleFFT(buf, timbre, 0, fftSize)
    IN  AccumulateChroma(ZeroChroma, fft, LowerHalf(fft), buf.rate)

RECURSIVE ChromaOfWindows(_, _, _, _)
ChromaOfWindows(buf, timbre, starts, chroma) ==
    IF starts = <<>> THEN chroma
    ELSE LET fft == simpleFFT(buf, timbre, Head(starts), Head(starts) + fftSize)
         IN  ChromaOfWindows(buf, timbre, Tail(starts),
                 AccumulateChroma(chroma, fft, DOMAIN fft.mag, buf.rate))

\* AudioAnalyzer.calculateChromaFeatures
Analyzer_calculateChromaFeatures(buf, timbre) ==
    ChromaOfWindows(buf, timbre, WindowStarts(Length(buf), fftSize, fftSize), ZeroChroma)

(***************************************************************************)
(* InstrumentDetector: feature snapshot, classifier, confidence, tags.     *)
(***************************************************************************)
extractAudioFeatures(buf, timbre) ==
    LET adsr == calculateADSR(buf)
    IN  [spectralCentroid |-> calculateSpectralCentroid(buf, timbre),
         spectralRolloff |-> calculateSpectralRolloff(buf, timbre),
         zeroCrossingRate |-> calculateZeroCrossingRate(buf),
         mfcc |-> calculateMFCC(buf, timbre),
         chroma |-> Detector_calculateChromaFeatures(buf, timbre),
         tempo |-> detectTempo(buf),
         energy |-> calculateEnergy(buf),
         attack |-> adsr.attack,
         sustain |-> adsr.sustain,
         decay |-> adsr.decay]

\* the condition of the if-statement of classifyInstrument that returns label
RuleCondition(label, features) ==
    LET spectralCentroid == features.spectralCentroid
        zeroCrossingRate == features.zeroCrossingRate
        energy == features.energy
        attack == features.attack
        sustain == features.sustain
        decay == features.decay
    IN  CASE label = "kick" ->
                Lt(spectralCentroid, 200) /\ Gt(energy, 700) /\ Lt(attack, 10000)
          [] label = "snare" ->
                Gt(spectralCentroid, 1000) /\ Lt(spectralCentroid, 4000)
                /\ Gt(zeroCrossingRate, 100) /\ Gt(energy, 500)
          [] label = "hihat" ->
                Gt(spectralCentroid, 3000) /\ Gt(zeroCrossingRate, 150) /\ Lt(energy, 400)
          [] label = "bass" ->
                Lt(spectralCentroid, 300) /\ Gt(energy, 600) /\ Gt(sustain, 300)
          [] label = "lead" ->
                Gt(spectralCentroid, 1000) /\ Lt(spectralCentroid, 3000) /\ Gt(sustain, 500)
          [] label = "pad" ->
                Gt(spectralCentroid, 500) /\ Lt(spectralCentroid, 2000)
                /\ Gt(sustain, 700) /\ Lt(energy, 600)
          [] label = "vocal" ->
                Gt(spectralCentroid, 1000) /\ Lt(spectralCentroid, 3000)
                /\ Gt(zeroCrossingRate, 50) /\ Lt(zeroCrossingRate, 150)
          [] label = "piano" ->
                Gt(spectralCentroid, 500) /\ Lt(spectralCentroid, 2000)
                /\ Lt(attack, 50000) /\ Gt(sustain, 300)
          [] label = "guitar" ->
                Gt(spectralCentroid, 200) /\ Lt(spectralCentroid, 1500)
                /\ Gt(zeroCrossingRate, 80) /\ Gt(energy, 400)
          [] label = "string" ->
                Gt(spectralCentroid, 500) /\ Lt(spectralCentroid, 2000)
                /\ Gt(sustain, 600) /\ Lt(attack, 100000)
          [] label = "brass" ->
                Gt(spectralCentroid, 300) /\ Lt(spectralCentroid, 1500)
                /\ Gt(energy, 500) /\ Gt(sustain, 400)
          [] label = "percussion" ->
                Lt(attack, 50000) /\ Lt(decay, 500000) /\ Gt(energy, 600)
          [] OTHER -> FALSE

\* the first label of order whose rule holds, 'unknown' when none does
RECURSIVE FirstMatch(_, _)
FirstMatch(order, features) ==
    IF order = <<>> THEN "unknown"
    ELSE IF RuleCondition(Head(order), features) THEN Head(order)
    ELSE FirstMatch(Tail(order), features)

\* a classifier that tests the bass rule before the kick rule
classifyInstrument_bassFirst(features) ==
    FirstMatch(<<"bass", "kick", "snare", "hihat", "lead", "pad", "vocal", "piano",
                 "guitar", "string", "brass", "percussion">>, features)

classifyInstrument(features) ==
    LET spectralCentroid == features.spectralCentroid
        zeroCrossingRate == features.zeroCrossingRate
        energy == features.energy
        attack == features.attack
        sustain == features.sustain
        decay == features.decay
    IN  IF Lt(spectralCentroid, 200) /\ Gt(energy, 700) /\ Lt(attack, 10000)
        THEN "kick"
        ELSE IF Gt(spectralCentroid, 1000) /\ Lt(spectralCentroid, 4000)
                /\ Gt(zeroCrossingRate, 100) /\ Gt(energy, 500)
        THEN "snare"
        ELSE IF Gt(spectralCentroid, 3000) /\ Gt(zeroCrossingRate, 150) /\ Lt(energy, 400)
        THEN "hihat"
        ELSE IF Lt(spectralCentroid, 300) /\ Gt(energy, 600) /\ Gt(sustain, 300)
        THEN "bass"
        ELSE IF Gt(spectralCentroid, 1000) /\ Lt(spectralCentroid, 3000) /\ Gt(sustain, 500)
        THEN "lead"
        ELSE IF Gt(spectralCentroid, 500) /\ Lt(spectralCentroid, 2000)
                /\ Gt(sustain, 700) /\ Lt(energy, 600)
        THEN "pad"
        ELSE IF Gt(spectralCentroid, 1000) /\ Lt(spectralCentroid, 3000)
                /\ Gt(zeroCrossingRate, 50) /\ Lt(zeroCrossingRate, 150)
        THEN "vocal"
        ELSE IF Gt(spectralCentroid, 500) /\ Lt(spectralCentroid, 2000)
                /\ Lt(attack, 50000) /\ Gt(sustain, 300)
        THEN "piano"
        ELSE IF Gt(spectralCentroid, 200) /\ Lt(spectralCentroid, 1500)
                /\ Gt(zeroCrossingRate, 80) /\ Gt(energy, 400)
        THEN "guitar"
        ELSE IF Gt(spectralCentroid, 500) /\ Lt(spectralCentroid, 2000)
                /\ Gt(sustain, 600) /\ Lt(attack, 100000)
        THEN "string"
        ELSE IF Gt(spectralCentroid, 300) /\ Lt(spectralCentroid, 1500)
                /\ Gt(energy, 500) /\ Gt(sustain, 400)
        THEN "brass"
        ELSE IF Lt(attack, 50000) /\ Lt(decay, 500000) /\ Gt(energy, 600)
        THEN "percussion"
        ELSE "unknown"

\* "if (cond) confidence += amount"
Bonus(cond, amount) == IF cond THEN amount ELSE 0

\* confidence in thousandths (the grid carries 0.5 + 0.2 + 0.2 + 0.1 as 1000)
calculateConfidence(features, instrumentType) ==
    LET spectralCentroid == features.spectralCentroid
        zeroCrossingRate == features.zeroCrossingRate
        energy == features.energy
        attack == features.attack
        sustain == features.sustain
        confidence ==
            CASE instrumentType = "kick" ->
                    500 + Bonus(Lt(spectralCentroid, 200), 200)
                        + Bonus(Gt(energy, 700), 200)
                        + Bonus(Lt(attack, 10000), 100)
              [] instrumentType = "snare" ->
                    500 + Bonus(Gt(spectralCentroid, 1000) /\ Lt(spectralCentroid, 4000), 200)
                        + Bonus(Gt(zeroCrossingRate, 100), 200)
                        + Bonus(Gt(energy, 500), 100)
              [] instrumentType = "hihat" ->
                    500 + Bonus(Gt(spectralCentroid, 3000), 200)
                        + Bonus(Gt(zeroCrossingRate, 150), 200)
                        + Bonus(Lt(energy, 400), 100)
              [] instrumentType = "bass" ->
                    500 + Bonus(Lt(spectralCentroid, 300), 200)
                        + Bonus(Gt(energy, 600), 200)
                        + Bonus(Gt(sustain, 300), 100)
              [] OTHER -> 300
    IN  Min2(1000, Max2(0, confidence))

extractCharacteristics(features) ==
    [frequency |-> features.spectralCentroid,
     attack |-> features.attack,
     sustain |-> features.sustain,
     decay |-> features.decay,
     spectralCentroid |-> features.spectralCentroid,
     zeroCrossingRate |-> features.zeroCrossingRate]

RECURSIVE UniqueFrom(_, _)
UniqueFrom(tags, seen) ==
    IF tags = <<>> THEN <<>>
    ELSE IF Head(tags) \in seen THEN UniqueFrom(Tail(tags), seen)
    ELSE <<Head(tags)>> \o UniqueFrom(Tail(tags), seen \cup {Head(tags)})

\* a copy that removes nothing
Unique_keepAll(tags) == tags

\* [...new Set(tags)]: first occurrences, in insertion order
Unique(tags) == UniqueFrom(tags, {})

\* tags.push(...) when cond holds
PushIf(cond, tags) == IF cond THEN tags ELSE <<>>

\* the tags pushed by generateInstrumentTags, before duplicates are removed
InstrumentTagsPushed(instrumentType, features) ==
    <<instrumentType>>
    \o (IF Lt(features.spectralCentroid, 200) THEN <<"low-frequency", "sub-bass">>
        ELSE IF Lt(features.spectralCentroid, 500) THEN <<"bass-range">>
        ELSE IF Lt(features.spectralCentroid, 1000) THEN <<"mid-range">>
        ELSE IF Lt(features.spectralCentroid, 3000) THEN <<"high-mid">>
        ELSE <<"high-frequency", "bright">>)
    \o (IF Gt(features.energy, 700) THEN <<"high-energy", "punchy">>
        ELSE IF Lt(features.energy, 300) THEN <<"low-energy", "soft">>
        ELSE <<>>)
    \o PushIf(Lt(features.attack, 10000), <<"fast-attack", "punchy">>)
    \o PushIf(Gt(features.sustain, 600), <<"sustained", "long">>)
    \o PushIf(Lt(features.decay, 300000), <<"short-decay", "tight">>)
    \o (CASE instrumentType = "kick" -> <<"drum", "percussion", "rhythm">>
          [] instrumentType = "snare" -> <<"drum", "percussion", "rhythm", "crack">>
          [] instrumentType = "hihat" -> <<"drum", "percussion", "rhythm", "cymbal">>
          [] instrumentType = "bass" -> <<"low-end", "foundation">>
          [] instrumentType = "lead" -> <<"melody", "synthesizer", "synth">>
          [] instrumentType = "pad" -> <<"atmospheric", "ambient", "texture">>
          [] instrumentType = "vocal" -> <<"voice", "human", "melody">>
          [] instrumentType = "piano" -> <<"keys", "acoustic", "melody">>
          [] instrumentType = "guitar" -> <<"string", "acoustic", "melody">>
          [] instrumentType = "string" -> <<"orchestral", "melody", "acoustic">>
          [] instrumentType = "brass" -> <<"horn", "orchestral", "melody">>
          [] OTHER -> <<>>)

generateInstrumentTags(instrumentType, features) ==
    Unique(InstrumentTagsPushed(instrumentType, features))

(***************************************************************************)
(* File names are sequences of characters.                                 *)
(***************************************************************************)
\* String.prototype.includes
Includes(name, part) ==
    \E i \in 1..(Len(name) - Len(part) + 1) :
        name[i] = part[1] /\ SubSeq(name, i, i + Len(part) - 1) = part

UpperToLower ==
    ("A" :> "a") @@ ("B" :> "b") @@ ("C" :> "c") @@ ("D" :> "d") @@ ("E" :> "e") @@
    ("F" :> "f") @@ ("G" :> "g") @@ ("H" :> "h") @@ ("I" :> "i") @@ ("J" :> "j") @@
    ("K" :> "k") @@ ("L" :> "l") @@ ("M" :> "m") @@ ("N" :> "n") @@ ("O" :> "o") @@
    ("P" :> "p") @@ ("Q" :> "q") @@ ("R" :> "r") @@ ("S" :> "s") @@ ("T" :> "t") @@
    ("U" :> "u") @@ ("V" :> "v") @@ ("W" :> "w") @@ ("X" :> "x") @@ ("Y" :> "y") @@
    ("Z" :> "z")

\* String.prototype.toLowerCase
toLowerCase(name) ==
    [i \in 1..Len(name) |->
        IF name[i] \in DOMAIN UpperToLower THEN UpperToLower[name[i]] ELSE name[i]]

(***************************************************************************)
(* AudioAnalyzer: key estimate and the filename tables.                    *)
(***************************************************************************)
majorKeys ==
    <<<<"C">>, <<"G">>, <<"D">>, <<"A">>, <<"E">>, <<"B">>, <<"F", "#">>, <<"C", "#">>, <<"F">>, <<"B", "b">>, <<"E", "b">>, <<"A", "b">>>>
minorKeys ==
    <<<<"A", "m">>, <<"E", "m">>, <<"B", "m">>, <<"F", "#", "m">>, <<"C", "#", "m">>, <<"G", "#", "m">>, <<"D", "#", "m">>, <<"A", "#", "m">>, <<"D", "m">>, <<"G", "m">>, <<"C", "m">>, <<"F", "m">>>>

\* chroma.indexOf(Math.max(...chroma)), as an index of 1..12
DominantChroma(chroma) ==
    SetMin({c \in 1..12 : chroma[c] = MaxSeq(chroma)})

\* AudioAnalyzer.detectKey
\* (every table entry is a non-empty string, so "key || 'C'" returns key)
detectKey(chroma) ==
    LET dominantChroma == DominantChroma(chroma)
        isMinor == chroma[4] > chroma[1]
    IN  IF isMinor THEN minorKeys[dominantChroma] ELSE majorKeys[dominantChroma]

\* AudioAnalyzer.inferGenreFromFilename
Analyzer_inferGenreFromFilename(filename) ==
    LET name == toLowerCase(filename) IN
    IF Includes(name, <<"b", "a", "s", "s">>) \/ Includes(name, <<"8", "0", "8">>) \/ Includes(name, <<"t", "r", "a", "p">>)
    THEN "Hip Hop"
    ELSE IF Includes(name, <<"k", "i", "c", "k">>) \/ Includes(name, <<"d", "r", "u", "m">>) \/ Includes(name, <<"p", "e", "r", "c">>)
    THEN "Electronic"
    ELSE IF Includes(name, <<"g", "u", "i", "t", "a", "r">>) \/ Includes(name, <<"a", "c", "o", "u", "s", "t", "i", "c">>)
    THEN "Rock"
    ELSE IF Includes(name, <<"p", "i", "a", "n", "o">>) \/ Includes(name, <<"k", "e", "y", "s">>)
    THEN "Classical"
    ELSE IF Includes(name, <<"s", "y", "n", "t", "h">>) \/ Includes(name, <<"p", "a", "d">>)
    THEN "Electronic"
    ELSE IF Includes(name, <<"v", "o", "c", "a", "l">>) \/ Includes(name, <<"v", "o", "i", "c", "e">>)
    THEN "Vocal"
    ELSE IF Includes(name, <<"a", "m", "b", "i", "e", "n", "t">>) \/ Includes(name, <<"a", "t", "m", "o", "s", "p", "h", "e", "r", "i", "c">>)
    THEN "Ambient"
    ELSE IF Includes(name, <<"j", "a", "z", "z">>) \/ Includes(name, <<"b", "l", "u", "e", "s">>)
    THEN "Jazz"
    ELSE IF Includes(name, <<"r", "e", "g", "g", "a", "e">>) \/ Includes(name, <<"s", "k", "a">>)
    THEN "Reggae"
    ELSE IF Includes(name, <<"m", "e", "t", "a", "l">>) \/ Includes(name, <<"h", "e", "a", "v", "y">>)
    THEN "Metal"
    ELSE IF Includes(name, <<"c", "o", "u", "n", "t", "r", "y">>) \/ Includes(name, <<"f", "o", "l", "k">>)
    THEN "Country"
    ELSE IF Includes(name, <<"f", "u", "n", "k">>) \/ Includes(name, <<"s", "o", "u", "l">>)
    THEN "Funk"
    ELSE IF Includes(name, <<"d", "i", "s", "c", "o">>) \/ Includes(name, <<"d", "a", "n", "c", "e">>)
    THEN "Disco"
    ELSE IF Includes(name, <<"t", "e", "c", "h", "n", "o">>) \/ Includes(name, <<"h", "o", "u", "s", "e">>)
    THEN "Techno"
    ELSE IF Includes(name, <<"l", "o", "-", "f", "i">>) \/ Includes(name, <<"l", "o", "f", "i">>)
    THEN "Lo-fi"
    ELSE IF Includes(name, <<"c", "h", "i", "l", "l">>) \/ Includes(name, <<"r", "e", "l", "a", "x">>)
    THEN "Chill"
    ELSE "Unknown"

\* AudioAnalyzer.inferMoodFromFilename
Analyzer_inferMoodFromFilename(filename) ==
    LET name == toLowerCase(filename) IN
    IF Includes(name, <<"d", "a", "r", "k">>) \/ Includes(name, <<"h", "e", "a", "v", "y">>) \/ Includes(name, <<"a", "g", "g", "r", "e", "s", "s", "i", "v", "e">>)
    THEN "Dark"
    ELSE IF Includes(name, <<"h", "a", "p", "p", "y">>) \/ Includes(name, <<"b", "r", "i", "g", "h", "t">>) \/ Includes(name, <<"u", "p", "l", "i", "f", "t", "i", "n", "g">>)
    THEN "Happy"
    ELSE IF Includes(name, <<"s", "a", "d">>) \/ Includes(name, <<"m", "e", "l", "a", "n", "c", "h", "o", "l", "y">>) \/ Includes(name, <<"d", "e", "p", "r", "e", "s", "s", "e", "d">>)
    THEN "Sad"
    ELSE IF Includes(name, <<"e", "n", "e", "r", "g", "e", "t", "i", "c">>) \/ Includes(name, <<"p", "u", "m", "p">>) \/ Includes(name, <<"i", "n", "t", "e", "n", "s", "e">>)
    THEN "Energetic"
    ELSE IF Includes(name, <<"c", "h", "i", "l", "l">>) \/ Includes(name, <<"r", "e", "l", "a", "x">>) \/ Includes(name, <<"c", "a", "l", "m">>)
    THEN "Chill"
    ELSE IF Includes(name, <<"m", "y", "s", "t", "e", "r", "i", "o", "u", "s">>) \/ Includes(name, <<"h", "a", "u", "n", "t", "i", "n", "g">>) \/ Includes(name, <<"e", "e", "r", "i", "e">>)
    THEN "Mysterious"
    ELSE IF Includes(name, <<"r", "o", "m", "a", "n", "t", "i", "c">>) \/ Includes(name, <<"l", "o", "v", "e">>) \/ Includes(name, <<"p", "a", "s", "s", "i", "o", "n", "a", "t", "e">>)
    THEN "Romantic"
    ELSE IF Includes(name, <<"d", "r", "e", "a", "m", "y">>) \/ Includes(name, <<"e", "t", "h", "e", "r", "e", "a", "l">>) \/ Includes(name, <<"f", "l", "o", "a", "t", "i", "n", "g">>)
    THEN "Dreamy"
    ELSE IF Includes(name, <<"a", "g", "g", "r", "e", "s", "s", "i", "v", "e">>) \/ Includes(name, <<"a", "n", "g", "r", "y">>) \/ Includes(name, <<"f", "i", "e", "r", "c", "e">>)
    THEN "Aggressive"
    ELSE IF Includes(name, <<"p", "e", "a", "c", "e", "f", "u", "l">>) \/ Includes(name, <<"s", "e", "r", "e", "n", "e">>) \/ Includes(name, <<"t", "r", "a", "n", "q", "u", "i", "l">>)
    THEN "Peaceful"
    ELSE "Neutral"

\* the tags pushed by AudioAnalyzer.generateTagsFromFilename
Analyzer_TagsPushed(filename, bpm, key) ==
    LET name == toLowerCase(filename) IN
    PushIf(Includes(name, <<"k", "i", "c", "k">>), <<"kick", "drum">>)
    \o PushIf(Includes(name, <<"s", "n", "a", "r", "e">>), <<"snare", "drum">>)
    \o PushIf(Includes(name, <<"h", "i", "h", "a", "t">>) \/ Includes(name, <<"h", "i", "-", "h", "a", "t">>), <<"hihat", "drum">>)
    \o PushIf(Includes(name, <<"c", "r", "a", "s", "h">>), <<"crash", "cymbal">>)
    \o PushIf(Includes(name, <<"b", "a", "s", "s">>), <<"bass">>)
    \o PushIf(Includes(name, <<"8", "0", "8">>), <<"808", "sub-bass">>)
    \o PushIf(Includes(name, <<"g", "u", "i", "t", "a", "r">>), <<"guitar">>)
    \o PushIf(Includes(name, <<"p", "i", "a", "n", "o">>) \/ Includes(name, <<"k", "e", "y", "s">>), <<"piano", "keys">>)
    \o PushIf(Includes(name, <<"s", "y", "n", "t", "h">>), <<"synthesizer", "synth">>)
    \o PushIf(Includes(name, <<"p", "a", "d">>), <<"pad", "atmospheric">>)
    \o PushIf(Includes(name, <<"l", "e", "a", "d">>), <<"lead", "melody">>)
    \o PushIf(Includes(name, <<"v", "o", "c", "a", "l">>) \/ Includes(name, <<"v", "o", "i", "c", "e">>), <<"vocal", "voice">>)
    \o PushIf(Includes(name, <<"c", "h", "o", "i", "r">>), <<"choir", "vocal">>)
    \o PushIf(Includes(name, <<"s", "t", "r", "i", "n", "g">>), <<"strings", "orchestral">>)
    \o PushIf(Includes(name, <<"b", "r", "a", "s", "s">>), <<"brass", "horn">>)
    \o PushIf(Includes(name, <<"f", "l", "u", "t", "e">>), <<"flute", "woodwind">>)
    \o PushIf(Includes(name, <<"s", "a", "x">>), <<"saxophone", "brass">>)
    \o PushIf(Includes(name, <<"t", "r", "a", "p">>), <<"trap">>)
    \o PushIf(Includes(name, <<"h", "o", "u", "s", "e">>), <<"house">>)
    \o PushIf(Includes(name, <<"t", "e", "c", "h", "n", "o">>), <<"techno">>)
    \o PushIf(Includes(name, <<"d", "u", "b", "s", "t", "e", "p">>), <<"dubstep">>)
    \o PushIf(Includes(name, <<"d", "r", "u", "m">>) /\ Includes(name, <<"b", "a", "s", "s">>), <<"drum and bass", "dnb">>)
    \o PushIf(Includes(name, <<"a", "m", "b", "i", "e", "n", "t">>), <<"ambient">>)
    \o PushIf(Includes(name, <<"l", "o", "-", "f", "i">>) \/ Includes(name, <<"l", "o", "f", "i">>), <<"lo-fi">>)
    \o PushIf(Includes(name, <<"j", "a", "z", "z">>), <<"jazz">>)
    \o PushIf(Includes(name, <<"f", "u", "n", "k">>), <<"funk">>)
    \o PushIf(Includes(name, <<"r", "e", "g", "g", "a", "e">>), <<"reggae">>)
    \o PushIf(Includes(name, <<"r", "o", "c", "k">>), <<"rock">>)
    \o PushIf(Includes(name, <<"m", "e", "t", "a", "l">>), <<"metal">>)
    \o PushIf(Includes(name, <<"c", "o", "u", "n", "t", "r", "y">>), <<"country">>)
    \o PushIf(Includes(name, <<"b", "l", "u", "e", "s">>), <<"blues">>)
    \o PushIf(Includes(name, <<"d", "i", "s", "t", "o", "r", "t", "e", "d">>) \/ Includes(name, <<"d", "i", "s", "t">>), <<"distorted">>)
    \o PushIf(Includes(name, <<"r", "e", "v", "e", "r", "b">>), <<"reverb">>)
    \o PushIf(Includes(name, <<"d", "e", "l", "a", "y">>), <<"delay">>)
    \o PushIf(Includes(name, <<"c", "h", "o", "r", "u", "s">>), <<"chorus">>)
    \o PushIf(Includes(name, <<"f", "l", "a", "n", "g", "e", "r">>), <<"flanger">>)
    \o PushIf(Includes(name, <<"p", "h", "a", "s", "e", "r">>), <<"phaser">>)
    \o PushIf(Includes(name, <<"c", "o", "m", "p", "r", "e", "s", "s", "e", "d">>) \/ Includes(name, <<"c", "o", "m", "p">>), <<"compressed">>)
    \o PushIf(Includes(name, <<"s", "a", "t", "u", "r", "a", "t", "e", "d">>) \/ Includes(name, <<"s", "a", "t">>), <<"saturated">>)
    \o PushIf(Includes(name, <<"f", "i", "l", "t", "e", "r", "e", "d">>) \/ Includes(name, <<"f", "i", "l", "t", "e", "r">>), <<"filtered">>)
    \o PushIf(Includes(name, <<"s", "i", "d", "e", "c", "h", "a", "i", "n">>), <<"sidechain">>)
    \o PushIf(bpm < 80, <<"slow", "downtempo">>)
    \o PushIf(bpm >= 80 /\ bpm < 120, <<"mid-tempo">>)
    \o PushIf(bpm >= 120 /\ bpm < 140, <<"up-tempo">>)
    \o PushIf(bpm >= 140, <<"fast", "high-energy">>)
    \o (IF Includes(key, <<"m">>) THEN <<"minor">> ELSE <<"major">>)
    \o PushIf(Includes(name, <<"c", "l", "e", "a", "n">>), <<"clean">>)
    \o PushIf(Includes(name, <<"d", "i", "r", "t", "y">>) \/ Includes(name, <<"g", "r", "i", "t", "t", "y">>), <<"dirty", "gritty">>)
    \o PushIf(Includes(name, <<"p", "u", "n", "c", "h", "y">>), <<"punchy">>)
    \o PushIf(Includes(name, <<"s", "o", "f", "t">>), <<"soft">>)
    \o PushIf(Includes(name, <<"h", "a", "r", "d">>), <<"hard">>)
    \o PushIf(Includes(name, <<"w", "a", "r", "m">>), <<"warm">>)
    \o PushIf(Includes(name, <<"c", "o", "l", "d">>), <<"cold">>)
    \o PushIf(Includes(name, <<"b", "r", "i", "g", "h", "t">>), <<"bright">>)
    \o PushIf(Includes(name, <<"d", "a", "r", "k">>), <<"dark">>)

\* AudioAnalyzer.generateTagsFromFilename
Analyzer_generateTagsFromFilename(filename, bpm, key) ==
    Unique(Analyzer_TagsPushed(filename, bpm, key))

(***************************************************************************)
(* AlgorithmicTaggingService: the filename fallback.                       *)
(***************************************************************************)
\* AlgorithmicTaggingService.inferGenreFromFilename
Service_inferGenreFromFilename(name) ==
    IF Includes(name, <<"b", "a", "s", "s">>) \/ Includes(name, <<"8", "0", "8">>) \/ Includes(name, <<"t", "r", "a", "p">>)
    THEN "Hip Hop"
    ELSE IF Includes(name, <<"k", "i", "c", "k">>) \/ Includes(name, <<"d", "r", "u", "m">>) \/ Includes(name, <<"p", "e", "r", "c">>)
    THEN "Electronic"
    ELSE IF Includes(name, <<"g", "u", "i", "t", "a", "r">>) \/ Includes(name, <<"a", "c", "o", "u", "s", "t", "i", "c">>)
    THEN "Rock"
    ELSE IF Includes(name, <<"p", "i", "a", "n", "o">>) \/ Includes(name, <<"k", "e", "y", "s">>)
    THEN "Classical"
    ELSE IF Includes(name, <<"s", "y", "n", "t", "h">>) \/ Includes(name, <<"p", "a", "d">>)
    THEN "Electronic"
    ELSE IF Includes(name, <<"v", "o", "c", "a", "l">>) \/ Includes(name, <<"v", "o", "i", "c", "e">>)
    THEN "Vocal"
    ELSE IF Includes(name, <<"a", "m", "b", "i", "e", "n", "t">>) \/ Includes(name, <<"a", "t", "m", "o", "s", "p", "h", "e", "r", "i", "c">>)
    THEN "Ambient"
    ELSE "Unknown"

\* AlgorithmicTaggingService.inferMoodFromFilename
Service_inferMoodFromFilename(name) ==
    IF Includes(name, <<"d", "a", "r", "k">>) \/ Includes(name, <<"h", "e", "a", "v", "y">>) \/ Includes(name, <<"a", "g", "g", "r", "e", "s", "s", "i", "v", "e">>)
    THEN "Dark"
    ELSE IF Includes(name, <<"h", "a", "p", "p", "y">>) \/ Includes(name, <<"b", "r", "i", "g", "h", "t">>) \/ Includes(name, <<"u", "p", "l", "i", "f", "t", "i", "n", "g">>)
    THEN "Happy"
    ELSE IF Includes(name, <<"s", "a", "d">>) \/ Includes(name, <<"m", "e", "l", "a", "n", "c", "h", "o", "l", "y">>) \/ Includes(name, <<"d", "e", "p", "r", "e", "s", "s", "e", "d">>)
    THEN "Sad"
    ELSE IF Includes(name, <<"e", "n", "e", "r", "g", "e", "t", "i", "c">>) \/ Includes(name, <<"p", "u", "m", "p">>) \/ Includes(name, <<"i", "n", "t", "e", "n", "s", "e">>)
    THEN "Energetic"
    ELSE IF Includes(name, <<"c", "h", "i", "l", "l">>) \/ Includes(name, <<"r", "e", "l", "a", "x">>) \/ Includes(name, <<"c", "a", "l", "m">>)
    THEN "Chill"
    ELSE "Neutral"

\* the tags pushed by AlgorithmicTaggingService.generateTagsFromFilename
Service_TagsPushed(name, bpm, key) ==
    PushIf(Includes(name, <<"k", "i", "c", "k">>), <<"kick", "drum">>)
    \o PushIf(Includes(name, <<"s", "n", "a", "r", "e">>), <<"snare", "drum">>)
    \o PushIf(Includes(name, <<"h", "i", "h", "a", "t">>) \/ Includes(name, <<"h", "i", "-", "h", "a", "t">>), <<"hihat", "drum">>)
    \o PushIf(Includes(name, <<"b", "a", "s", "s">>), <<"bass">>)
    \o PushIf(Includes(name, <<"8", "0", "8">>), <<"808", "sub-bass">>)
    \o PushIf(Includes(name, <<"g", "u", "i", "t", "a", "r">>), <<"guitar">>)
    \o PushIf(Includes(name, <<"p", "i", "a", "n", "o">>) \/ Includes(name, <<"k", "e", "y", "s">>), <<"piano", "keys">>)
    \o PushIf(Includes(name, <<"s", "y", "n", "t", "h">>), <<"synthesizer", "synth">>)
    \o PushIf(Includes(name, <<"v", "o", "c", "a", "l">>) \/ Includes(name, <<"v", "o", "i", "c", "e">>), <<"vocal", "voice">>)
    \o PushIf(Includes(name, <<"t", "r", "a", "p">>), <<"trap">>)
    \o PushIf(Includes(name, <<"h", "o", "u", "s", "e">>), <<"house">>)
    \o PushIf(Includes(name, <<"t", "e", "c", "h", "n", "o">>), <<"techno">>)
    \o PushIf(Includes(name, <<"a", "m", "b", "i", "e", "n", "t">>), <<"ambient">>)
    \o PushIf(Includes(name, <<"l", "o", "-", "f", "i">>) \/ Includes(name, <<"l", "o", "f", "i">>), <<"lo-fi">>)
    \o PushIf(bpm < 80, <<"slow", "downtempo">>)
    \o PushIf(bpm >= 80 /\ bpm < 120, <<"mid-tempo">>)
    \o PushIf(bpm >= 120 /\ bpm < 140, <<"up-tempo">>)
    \o PushIf(bpm >= 140, <<"fast", "high-energy">>)
    \o (IF Includes(key, <<"m">>) THEN <<"minor">> ELSE <<"major">>)

\* AlgorithmicTaggingService.generateTagsFromFilename
Service_generateTagsFromFilename(name, bpm, key) ==
    Unique(Service_TagsPushed(name, bpm, key))

KeyC == <<"C">>

\* a fallback that reads the name as it was given
fallbackTagging_caseSensitive(filename) ==
    [genre |-> Service_inferGenreFromFilename(filename),
     mood |-> Service_inferMoodFromFilename(filename),
     key |-> KeyC,
     bpm |-> 120,
     tags |-> Service_generateTagsFromFilename(filename, 120, KeyC)]

\* a fallback that leaves the key and the tempo to the caller
fallbackTagging_withoutDefaults(filename) ==
    LET name == toLowerCase(filename)
    IN  [genre |-> Service_inferGenreFromFilename(name),
         mood |-> Service_inferMoodFromFilename(name),
         key |-> <<>>,
         bpm |-> 0,
         tags |-> Service_generateTagsFromFilename(name, 0, <<>>)]

fallbackTagging(filename) ==
    LET name == toLowerCase(filename)
    IN  [genre |-> Service_inferGenreFromFilename(name),
         mood |-> Service_inferMoodFromFilename(name),
         key |-> KeyC,
         bpm |-> 120,
         tags |-> Service_generateTagsFromFilename(name, 120, KeyC)]

fallbackSampleTagging(filename) ==
    Service_generateTagsFromFilename(toLowerCase(filename), 120, KeyC)

(***************************************************************************)
(* MIDIAnalysisService.  A frequency table is the list of its entries in   *)
(* insertion order, which is the order Object.entries and Object.keys      *)
(* enumerate (no key of these tables is an integer index).                 *)
(***************************************************************************)
\* a string from its characters
RECURSIVE Text(_)
Text(chars) == IF chars = <<>> THEN "" ELSE Head(chars) \o Text(Tail(chars))

\* obj[key] || 0
Count(table, key) ==
    IF \E i \in 1..Len(table) : table[i].key = key
    THEN table[CHOOSE i \in 1..Len(table) : table[i].key = key].count
    ELSE 0

\* Object.keys(obj)
Keys(table) == [i \in 1..Len(table) |-> table[i].key]

\* obj[key] = count
SetCount(table, key, count) ==
    IF \E i \in 1..Len(table) : table[i].key = key
    THEN [i \in 1..Len(table) |->
            IF table[i].key = key THEN [key |-> key, count |-> count] ELSE table[i]]
    ELSE Append(table, [key |-> key, count |-> count])

\* a merge that keeps the counts of the first file only
Aggregate_keepFirst(total, part) == IF total = <<>> THEN part ELSE total

\* Object.entries(part).forEach(([k, count]) => total[k] = (total[k] || 0) + count)
RECURSIVE Aggregate(_, _)
Aggregate(total, part) ==
    IF part = <<>> THEN total
    ELSE Aggregate(SetCount(total, Head(part).key,
                            Count(total, Head(part).key) + Head(part).count),
                   Tail(part))

\* the entries of a table that is given a count of 1 for each listed key
Ones(keys) == [i \in 1..Len(keys) |-> [key |-> keys[i], count |-> 1]]

genreKeywords ==
    <<[genre |-> "Jazz", keywords |->
          {<<"j", "a", "z", "z">>, <<"s", "w", "i", "n", "g">>, <<"b", "l", "u", "e", "s">>, <<"b", "e", "b", "o", "p">>, <<"f", "u", "s", "i", "o", "n">>, <<"s", "m", "o", "o", "t", "h">>, <<"l", "o", "u", "n", "g", "e">>}],
      [genre |-> "Classical", keywords |->
          {<<"c", "l", "a", "s", "s", "i", "c", "a", "l">>, <<"s", "y", "m", "p", "h", "o", "n", "y">>, <<"o", "r", "c", "h", "e", "s", "t", "r", "a">>, <<"c", "h", "a", "m", "b", "e", "r">>, <<"c", "o", "n", "c", "e", "r", "t", "o">>, <<"s", "o", "n", "a", "t", "a">>, <<"f", "u", "g", "u", "e">>}],
      [genre |-> "Rock", keywords |->
          {<<"r", "o", "c", "k">>, <<"m", "e", "t", "a", "l">>, <<"p", "u", "n", "k">>, <<"g", "r", "u", "n", "g", "e">>, <<"a", "l", "t", "e", "r", "n", "a", "t", "i", "v", "e">>, <<"i", "n", "d", "i", "e">>, <<"g", "a", "r", "a", "g", "e">>}],
      [genre |-> "Electronic", keywords |->
          {<<"e", "l", "e", "c", "t", "r", "o", "n", "i", "c">>, <<"t", "e", "c", "h", "n", "o">>, <<"h", "o", "u", "s", "e">>, <<"t", "r", "a", "n", "c", "e">>, <<"a", "m", "b", "i", "e", "n", "t">>, <<"s", "y", "n", "t", "h">>, <<"d", "a", "n", "c", "e">>, <<"e", "d", "m">>}],
      [genre |-> "Pop", keywords |->
          {<<"p", "o", "p">>, <<"m", "a", "i", "n", "s", "t", "r", "e", "a", "m">>, <<"r", "a", "d", "i", "o">>, <<"h", "i", "t">>, <<"c", "h", "a", "r", "t">>, <<"c", "o", "m", "m", "e", "r", "c", "i", "a", "l">>}],
      [genre |-> "Funk", keywords |->
          {<<"f", "u", "n", "k">>, <<"d", "i", "s", "c", "o">>, <<"s", "o", "u", "l">>, <<"r", "&", "b">>, <<"m", "o", "t", "o", "w", "n">>}],
      [genre |-> "Latin", keywords |->
          {<<"l", "a", "t", "i", "n">>, <<"s", "a", "l", "s", "a">>, <<"b", "o", "s", "s", "a">>, <<"s", "a", "m", "b", "a">>, <<"t", "a", "n", "g", "o">>, <<"f", "l", "a", "m", "e", "n", "c", "o">>}],
      [genre |-> "Country", keywords |->
          {<<"c", "o", "u", "n", "t", "r", "y">>, <<"f", "o", "l", "k">>, <<"b", "l", "u", "e", "g", "r", "a", "s", "s">>, <<"w", "e", "s", "t", "e", "r", "n">>, <<"a", "m", "e", "r", "i", "c", "a", "n", "a">>}],
      [genre |-> "Hip-Hop", keywords |->
          {<<"h", "i", "p">>, <<"h", "o", "p">>, <<"r", "a", "p">>, <<"u", "r", "b", "a", "n">>, <<"t", "r", "a", "p">>, <<"d", "r", "i", "l", "l">>}],
      [genre |-> "Reggae", keywords |->
          {<<"r", "e", "g", "g", "a", "e">>, <<"s", "k", "a">>, <<"d", "u", "b">>, <<"d", "a", "n", "c", "e", "h", "a", "l", "l">>}],
      [genre |-> "World", keywords |->
          {<<"w", "o", "r", "l", "d">>, <<"e", "t", "h", "n", "i", "c">>, <<"t", "r", "a", "d", "i", "t", "i", "o", "n", "a", "l">>, <<"c", "u", "l", "t", "u", "r", "a", "l">>, <<"t", "r", "i", "b", "a", "l">>}]>>

tempoCategories ==
    <<[category |-> "Very Slow", min |-> 40, max |-> 60],
      [category |-> "Slow", min |-> 60, max |-> 80],
      [category |-> "Moderate", min |-> 80, max |-> 100],
      [category |-> "Medium", min |-> 100, max |-> 120],
      [category |-> "Fast", min |-> 120, max |-> 140],
      [category |-> "Very Fast", min |-> 140, max |-> 200]>>

instrumentKeywords ==
    <<<<"p", "i", "a", "n", "o">>,
      <<"g", "u", "i", "t", "a", "r">>,
      <<"b", "a", "s", "s">>,
      <<"d", "r", "u", "m", "s">>,
      <<"s", "a", "x">>,
      <<"t", "r", "u", "m", "p", "e", "t">>,
      <<"v", "i", "o", "l", "i", "n">>,
      <<"f", "l", "u", "t", "e">>,
      <<"o", "r", "g", "a", "n">>,
      <<"s", "y", "n", "t", "h">>>>

mapKeywordToInstrument(keyword) ==
    CASE keyword = <<"p", "i", "a", "n", "o">> -> "Piano"
      [] keyword = <<"g", "u", "i", "t", "a", "r">> -> "Guitar"
      [] keyword = <<"b", "a", "s", "s">> -> "Bass"
      [] keyword = <<"d", "r", "u", "m", "s">> -> "Drums"
      [] keyword = <<"s", "a", "x">> -> "Saxophone"
      [] keyword = <<"t", "r", "u", "m", "p", "e", "t">> -> "Trumpet"
      [] keyword = <<"v", "i", "o", "l", "i", "n">> -> "Violin"
      [] keyword = <<"f", "l", "u", "t", "e">> -> "Flute"
      [] keyword = <<"o", "r", "g", "a", "n">> -> "Organ"
      [] keyword = <<"s", "y", "n", "t", "h">> -> "Synthesizer"
      [] OTHER -> "Unknown"

categorizeTempo(tempo) ==
    LET fits == {i \in 1..Len(tempoCategories) :
                    tempo >= tempoCategories[i].min /\ tempo <= tempoCategories[i].max}
    IN  IF fits = {} THEN "Unknown"
        ELSE tempoCategories[CHOOSE i \in fits : \A j \in fits : i <= j].category

categorizeFile(fileName) ==
    LET name == toLowerCase(fileName)
    IN  IF Includes(name, <<"j", "a", "z", "z">>) \/ Includes(name, <<"s", "w", "i", "n", "g">>) THEN "Jazz"
        ELSE IF Includes(name, <<"c", "l", "a", "s", "s", "i", "c", "a", "l">>) \/ Includes(name, <<"o", "r", "c", "h", "e", "s", "t", "r", "a">>) THEN "Classical"
        ELSE IF Includes(name, <<"r", "o", "c", "k">>) \/ Includes(name, <<"m", "e", "t", "a", "l">>) THEN "Rock"
        ELSE IF Includes(name, <<"e", "l", "e", "c", "t", "r", "o", "n", "i", "c">>) \/ Includes(name, <<"t", "e", "c", "h", "n", "o">>) THEN "Electronic"
        ELSE IF Includes(name, <<"p", "o", "p">>) \/ Includes(name, <<"m", "a", "i", "n", "s", "t", "r", "e", "a", "m">>) THEN "Pop"
        ELSE IF Includes(name, <<"f", "u", "n", "k">>) \/ Includes(name, <<"d", "i", "s", "c", "o">>) THEN "Funk"
        ELSE IF Includes(name, <<"l", "a", "t", "i", "n">>) \/ Includes(name, <<"s", "a", "l", "s", "a">>) THEN "Latin"
        ELSE IF Includes(name, <<"c", "o", "u", "n", "t", "r", "y">>) \/ Includes(name, <<"f", "o", "l", "k">>) THEN "Country"
        ELSE IF Includes(name, <<"h", "i", "p">>) \/ Includes(name, <<"r", "a", "p">>) THEN "Hip-Hop"
        ELSE IF Includes(name, <<"r", "e", "g", "g", "a", "e">>) \/ Includes(name, <<"s", "k", "a">>) THEN "Reggae"
        ELSE "General"

(***************************************************************************)
(* The two regular expressions of analyzeSingleMIDI, matched as the engine *)
(* matches them: at the leftmost position, alternatives in order, greedy.  *)
(***************************************************************************)
Digits == <<"0", "1", "2", "3", "4", "5", "6", "7", "8", "9">>

IsDigit(c) == \E d \in 1..10 : Digits[d] = c

DigitValue(c) == (CHOOSE d \in 1..10 : Digits[d] = c) - 1

\* parseInt of a string of digits
RECURSIVE parseInt(_)
parseInt(chars) ==
    IF chars = <<>> THEN 0
    ELSE 10 * parseInt(SubSeq(chars, 1, Len(chars) - 1)) + DigitValue(chars[Len(chars)])

\* the character at position p, "" past the end
CharAt(name, p) == IF p \in 1..Len(name) THEN name[p] ELSE ""

StartsAt(name, p, part) ==
    /\ p + Len(part) - 1 <= Len(name)
    /\ SubSeq(name, p, p + Len(part) - 1) = part

\* the position after \s* matched from p
RECURSIVE SkipSpaces(_, _)
SkipSpaces(name, p) == IF CharAt(name, p) = " " THEN SkipSpaces(name, p + 1) ELSE p

DigitsAt(name, p, n) == \A i \in p..(p + n - 1) : IsDigit(CharAt(name, i))

Bpm == <<"b", "p", "m">>

NoMatch == [matched |-> FALSE, group |-> <<>>]

\* /(\d{2,3})bpm|(\d{2,3})\s*bpm|bpm\s*(\d{2,3})/i tried at position p
TempoMatchAt(name, p) ==
    LET lower == toLowerCase(name)
        digitsThenBpm(n) == DigitsAt(name, p, n) /\ StartsAt(lower, SkipSpaces(name, p + n), Bpm)
        q == SkipSpaces(name, p + 3)
    IN  IF digitsThenBpm(3) THEN [matched |-> TRUE, group |-> SubSeq(name, p, p + 2)]
        ELSE IF digitsThenBpm(2) THEN [matched |-> TRUE, group |-> SubSeq(name, p, p + 1)]
        ELSE IF StartsAt(lower, p, Bpm) /\ DigitsAt(name, q, 3)
        THEN [matched |-> TRUE, group |-> SubSeq(name, q, q + 2)]
        ELSE IF StartsAt(lower, p, Bpm) /\ DigitsAt(name, q, 2)
        THEN [matched |-> TRUE, group |-> SubSeq(name, q, q + 1)]
        ELSE NoMatch

\* fileName.match(...) of the tempo expression
TempoMatch(name) ==
    LET hits == {p \in 1..Len(name) : TempoMatchAt(name, p).matched}
    IN  IF hits = {} THEN NoMatch
        ELSE TempoMatchAt(name, CHOOSE p \in hits : \A r \in hits : p <= r)

\* /([A-G][#b]?[m]?)\s*(major|minor)?/i: its first group
KeyMatch(name) ==
    LET isNote(c) == c \in {"a", "b", "c", "d", "e", "f", "g", "A", "B", "C", "D", "E", "F", "G"}
        hits == {p \in 1..Len(name) : isNote(name[p])}
        p == CHOOSE h \in hits : \A r \in hits : h <= r
        accidental == IF CharAt(name, p + 1) \in {"#", "b", "B"} THEN 1 ELSE 0
        minor == IF CharAt(name, p + 1 + accidental) \in {"m", "M"} THEN 1 ELSE 0
    IN  IF hits = {} THEN NoMatch
        ELSE [matched |-> TRUE, group |-> SubSeq(name, p, p + accidental + minor)]

analyzeSingleMIDI(file) ==
    LET fileName == toLowerCase(file.name)
        isGenre(g) == \E keyword \in g.keywords : Includes(fileName, keyword)
        found == SelectSeq(genreKeywords, isGenre)
        genres == IF found = <<>> THEN <<"Unknown">>
                  ELSE [i \in 1..Len(found) |-> found[i].genre]
        isNamed(keyword) == Includes(fileName, keyword)
        named == SelectSeq(instrumentKeywords, isNamed)
        instruments == IF named = <<>> THEN <<"Piano">>
                       ELSE [i \in 1..Len(named) |-> mapKeywordToInstrument(named[i])]
        tempoMatch == TempoMatch(fileName)
        tempo == parseInt(tempoMatch.group)
        inRange == tempoMatch.matched /\ tempo >= 40 /\ tempo <= 200
        keyMatch == KeyMatch(fileName)
    IN  [instruments |-> Ones(instruments),
         genres |-> Ones(genres),
         tempos |-> IF ~tempoMatch.matched THEN Ones(<<"Medium">>)
                    ELSE IF inRange THEN Ones(<<categorizeTempo(tempo)>>)
                    ELSE <<>>,
         keys |-> IF keyMatch.matched THEN Ones(<<Text(keyMatch.group)>>)
                  ELSE Ones(<<"C">>),
         timeSignatures |-> Ones(<<"4/4">>),
         averageTempo |-> IF inRange THEN tempo ELSE 120]

\* the first key with the largest count, 'None' for an empty table
findMostCommon(obj) ==
    LET best == {i \in 1..Len(obj) :
                    /\ obj[i].count > 0
                    /\ \A j \in 1..Len(obj) : obj[j].count <= obj[i].count
                    /\ \A j \in 1..(i - 1) : obj[j].count < obj[i].count}
    IN  IF best = {} THEN "None" ELSE obj[CHOOSE i \in best : TRUE].key

commonInstruments == <<"Piano", "Guitar", "Bass", "Drums", "Saxophone", "Trumpet">>

\* a list of common instruments that stops before the last one
identifyLearningGaps_withoutTrumpet(analysis) ==
    LET isMissing(instrument) == Count(analysis.instruments, instrument) = 0
        missing == SelectSeq(SubSeq(commonInstruments, 1, 5), isMissing)
    IN  [i \in 1..Len(missing) |-> "Missing " \o missing[i] \o " training data"]
        \o PushIf(Len(analysis.tempos) < 3,
                  <<"Limited tempo diversity - add more varied BPM ranges">>)
        \o PushIf(Len(analysis.genres) < 3,
                  <<"Limited genre diversity - add more musical styles">>)
        \o PushIf(Len(analysis.keys) < 5,
                  <<"Limited key diversity - add more key signatures">>)

identifyLearningGaps(analysis) ==
    LET isMissing(instrument) == Count(analysis.instruments, instrument) = 0
        missing == SelectSeq(commonInstruments, isMissing)
    IN  [i \in 1..Len(missing) |-> "Missing " \o missing[i] \o " training data"]
        \o PushIf(Len(analysis.tempos) < 3,
                  <<"Limited tempo diversity - add more varied BPM ranges">>)
        \o PushIf(Len(analysis.genres) < 3,
                  <<"Limited genre diversity - add more musical styles">>)
        \o PushIf(Len(analysis.keys) < 5,
                  <<"Limited key diversity - add more key signatures">>)

RECURSIVE InsertByCount(_, _)
InsertByCount(entry, sorted) ==
    IF sorted = <<>> THEN <<entry>>
    ELSE IF entry.count > Head(sorted).count THEN <<entry>> \o sorted
    ELSE <<Head(sorted)>> \o InsertByCount(entry, Tail(sorted))

\* Object.entries(obj).sort(([,a], [,b]) => b - a), a stable sort
RECURSIVE SortByCount(_)
SortByCount(table) ==
    IF table = <<>> THEN <<>>
    ELSE InsertByCount(table[Len(table)], SortByCount(SubSeq(table, 1, Len(table) - 1)))

\* Array.prototype.join(', ')
RECURSIVE Join(_)
Join(words) ==
    IF words = <<>> THEN ""
    ELSE IF Len(words) = 1 THEN Head(words)
    ELSE Head(words) \o ", " \o Join(Tail(words))

\* slice(0, n)
Slice(list, n) == SubSeq(list, 1, Min2(n, Len(list)))

\* averageTempo is totalTempo / tempoCount, compared here as a fraction
generateRecommendations(analysis, totalTempo, tempoCount) ==
    LET topInstruments == Keys(Slice(SortByCount(analysis.instruments), 3))
        topGenres == Keys(Slice(SortByCount(analysis.genres), 2))
        below80 == IF tempoCount > 0 THEN totalTempo < 80 * tempoCount ELSE TRUE
        above140 == IF tempoCount > 0 THEN totalTempo > 140 * tempoCount ELSE FALSE
    IN  PushIf(Len(topInstruments) > 0, <<"Strong in: " \o Join(topInstruments)>>)
        \o PushIf(Len(topGenres) > 0, <<"Primary genres: " \o Join(topGenres)>>)
        \o (IF below80 THEN <<"Consider adding faster tempo training data">>
            ELSE IF above140 THEN <<"Consider adding slower tempo training data">>
            ELSE <<>>)
        \o (IF analysis.totalFiles < 10
            THEN <<"Add more training files for better model performance">>
            ELSE IF analysis.totalFiles > 50
            THEN <<"Good training data size - consider organizing into specialized banks">>
            ELSE <<>>)

\* analysis.fileCategories[category].push(name)
FileInCategory(fileCategories, category, name) ==
    IF \E i \in 1..Len(fileCategories) : fileCategories[i].key = category
    THEN [i \in 1..Len(fileCategories) |->
            IF fileCategories[i].key = category
            THEN [fileCategories[i] EXCEPT !.files = Append(@, name)]
            ELSE fileCategories[i]]
    ELSE Append(fileCategories, [key |-> category, files |-> <<name>>])

(***************************************************************************)
(* DataRetentionService: the retention list and its persisted copy.        *)
(* Timestamps are whole days; an item carries the length of its JSON text. *)
(***************************************************************************)
\* characters the browser lets one origin keep in localStorage
StorageQuota == 5 * 1024 * 1024

\* JSON.stringify(this.retentionData).length
JsonLength(data) == 2 + SumSeq([i \in 1..Len(data) |-> data[i].size + 1])

estimateStorageSize(data) == JsonLength(data) * 2

RECURSIVE InsertNewestFirst(_, _)
InsertNewestFirst(item, sorted) ==
    IF sorted = <<>> THEN <<item>>
    ELSE IF item.timestamp > Head(sorted).timestamp THEN <<item>> \o sorted
    ELSE <<Head(sorted)>> \o InsertNewestFirst(item, Tail(sorted))

RECURSIVE SortNewestFirst(_)
\* sort((a, b) => b.timestamp.localeCompare(a.timestamp)), a stable sort
SortNewestFirst(data) ==
    IF data = <<>> THEN <<>>
    ELSE InsertNewestFirst(data[Len(data)], SortNewestFirst(SubSeq(data, 1, Len(data) - 1)))

cleanupOldData(data, today) ==
    LET isRecent(item) == item.timestamp > today - 7
        recent == SelectSeq(data, isRecent)
    IN  IF Len(recent) > 200 THEN SubSeq(SortNewestFirst(recent), 1, 200) ELSE recent

\* the list and the stored text after saveRetentionData
saveRetentionData(data, stored, today) ==
    LET dataString == data
        kept == IF estimateStorageSize(data) > 2 * 1024 * 1024
                THEN cleanupOldData(data, today) ELSE data
        retried == cleanupOldData(kept, today)
    IN  IF JsonLength(dataString) <= StorageQuota
        THEN [retentionData |-> kept, storage |-> dataString]
        ELSE \* setItem throws QuotaExceededError: clean up and try once more
             [retentionData |-> retried,
              storage |-> IF JsonLength(retried) <= StorageQuota THEN retried ELSE stored]

retainData(data, stored, today, type, payload, source, size) ==
    saveRetentionData(
        Append(data, [type |-> type, data |-> payload, timestamp |-> today,
                      source |-> source, size |-> size]),
        stored, today)

retainMLAnalysis(data, stored, today, analysisType, payload) ==
    retainData(data, stored, today, "ml_analysis",
               [analysisType |-> analysisType, result |-> payload],
               "ai_analysis", 400)

\* the length of the JSON text of a retained sample and of a retained track
SampleItemSize == 250
TrackItemSize == 350

retainSample(data, stored, today, sample) ==
    retainData(data, stored, today, "sample", sample, "scan", SampleItemSize)

retainTrack(data, stored, today, track) ==
    retainData(data, stored, today, "track", track, "scan", TrackItemSize)

retainScanResult(data, stored, today, scanType, size) ==
    retainData(data, stored, today, "scan_result", scanType, "scan", size)

\* the filter of purgeData: the item is kept
KeptByPurge(item, options) ==
    CASE item.type = "track" -> ~options.purgeTracks
      [] item.type = "sample" -> ~options.purgeSamples
      [] item.type = "note" -> ~options.purgeNotes
      [] item.type = "plugin" -> ~options.purgePlugins
      [] item.type = "project_event" -> ~options.purgeProjectEvents
      [] item.type = "ml_analysis" -> ~options.purgeMLData
      [] item.type = "scan_result" -> ~options.purgeScanResults
      [] OTHER -> TRUE

\* DataRetentionService.purgeData: the list, the stored text and the value
\* returned
purgeData(data, stored, today, options) ==
    LET isKept(item) == KeptByPurge(item, options)
        dataToKeep == IF options.purgeAll THEN <<>> ELSE SelectSeq(data, isKept)
        saved == saveRetentionData(dataToKeep, stored, today)
    IN  [retentionData |-> saved.retentionData, storage |-> saved.storage,
         purgedCount |-> Len(data) - Len(dataToKeep),
         purgedTypes |->
            IF options.purgeAll THEN <<"all">>
            ELSE PushIf(options.purgeTracks, <<"tracks">>)
                 \o PushIf(options.purgeSamples, <<"samples">>)
                 \o PushIf(options.purgeNotes, <<"notes">>)
                 \o PushIf(options.purgePlugins, <<"plugins">>)
                 \o PushIf(options.purgeProjectEvents, <<"project_events">>)
                 \o PushIf(options.purgeMLData, <<"ml_analysis">>)
                 \o PushIf(options.purgeScanResults, <<"scan_results">>)]

\* DataRetentionService.importRetentionData of a backup that parses to a list
importRetentionData(stored, today, backup) ==
    saveRetentionData(backup, stored, today)

\* DataRetentionService.forceCleanup
forceCleanup(data, stored, today) ==
    saveRetentionData(cleanupOldData(data, today), stored, today)

\* the constructor's loadRetentionData: the stored list, or none
loadRetentionData(stored) == stored

(***************************************************************************)
(* dbService: the tables of the application database, as sets of row ids.  *)
(***************************************************************************)
EmptyTables == [tracks |-> {}, samples |-> {}, plugins |-> {}, project_events |-> {}]

mockSamples == <<"smpl_001", "smpl_002", "smpl_003", "smpl_004">>
mockPlugins == {"plg_001", "plg_002", "plg_003", "plg_004"}
mockEvents == {"evt_001", "evt_002", "evt_003", "evt_004"}

\* samples.forEach(sample => { INSERT OR IGNORE ...; retainSample(sample, 'scan') })
RECURSIVE RetainSamples(_, _, _)
RetainSamples(store, today, samples) ==
    IF samples = <<>> THEN store
    ELSE RetainSamples(retainSample(store.retentionData, store.storage, today, Head(samples)),
                       today, Tail(samples))

RECURSIVE RetainTracks(_, _, _)
RetainTracks(store, today, tracks) ==
    IF tracks = <<>> THEN store
    ELSE RetainTracks(retainTrack(store.retentionData, store.storage, today, Head(tracks)),
                      today, Tail(tracks))

\* rows with a field of a type stmt.run cannot bind: stmt.run throws on them
Unbindable == {"trk_bad", "smpl_bad"}

\* the rows of a batch that forEach passes before stmt.run throws
RECURSIVE BoundRows(_)
BoundRows(rows) ==
    IF rows = <<>> THEN <<>>
    ELSE IF Head(rows) \in Unbindable THEN <<>>
    ELSE <<Head(rows)>> \o BoundRows(Tail(rows))

\* dbService.addSamples: the tables and the retention store after it; when
\* stmt.run throws, the catch block rolls the inserts back and rethrows
addSamples(tables, store, today, samples) ==
    [threw |-> BoundRows(samples) # samples,
     tables |-> IF BoundRows(samples) # samples THEN tables
                ELSE [tables EXCEPT !.samples = @ \cup {samples[i] : i \in 1..Len(samples)}],
     store |-> RetainSamples(store, today, BoundRows(samples))]

\* dbService.addTracks
addTracks(tables, store, today, tracks) ==
    [threw |-> BoundRows(tracks) # tracks,
     tables |-> IF BoundRows(tracks) # tracks THEN tables
                ELSE [tables EXCEPT !.tracks = @ \cup {tracks[i] : i \in 1..Len(tracks)}],
     store |-> RetainTracks(store, today, BoundRows(tracks))]

\* dbService.seedDatabase: addSamples, addPlugins, addProjectEvents
seedDatabase(tables, store, today) ==
    LET withSamples == addSamples(tables, store, today, mockSamples)
    IN  [tables |-> [withSamples.tables EXCEPT !.plugins = @ \cup mockPlugins,
                                               !.project_events = @ \cup mockEvents],
         store |-> withSamples.store]

(***************************************************************************)
(* The numeric path: one imported file, analysed by InstrumentDetector     *)
(* and tagged by AlgorithmicTaggingService.                                *)
(***************************************************************************)
NoBuffer == [rate |-> 44100, runs |-> <<>>, tail |-> <<>>]

\* what a file sounds like and what it is called
FileKinds ==
    {[name |-> <<"s", "o", "n", "g", ".", "w", "a", "v">>, timbre |-> (0 :> 1)],
     [name |-> <<"K", "i", "c", "k", "_", "S", "n", "a", "r", "e", "_", "D", "A", "R", "K", ".", "w", "a", "v">>, timbre |-> (0 :> 1) @@ (30 :> 3)],
     [name |-> <<"v", "o", "c", "a", "l", "_", "c", "h", "o", "i", "r", "_", "l", "e", "a", "d", ".", "w", "a", "v">>, timbre |-> (0 :> 1) @@ (400 :> 3)],
     [name |-> <<"K", "I", "C", "K", "_", "T", "r", "a", "p", "_", "h", "a", "r", "d", ".", "w", "a", "v">>, timbre |-> (0 :> 1) @@ (30 :> 3)]}

\* files decodeAudioData accepts, and files it rejects
DecodableFiles ==
    {[name |-> k.name, decodable |-> TRUE, buf |-> b, timbre |-> k.timbre] :
        k \in FileKinds, b \in Buffers}
BrokenFiles ==
    {[name |-> k.name, decodable |-> FALSE, buf |-> NoBuffer, timbre |-> k.timbre] :
        k \in FileKinds}

\* the entry points a caller can invoke on an imported file
Requests == {"detectInstrument", "autoTagTrack", "autoTagSample"}

VARIABLES
    file,           \* the imported file
    request,        \* the entry point invoked on it
    audioContext,   \* an AudioContext could be constructed
    detection,      \* what detectInstrument has produced so far
    track,          \* what autoTagTrack returned
    sampleTags,     \* what autoTagSample returned
    retentionData,  \* DataRetentionService.retentionData
    storage,        \* the list stored under STORAGE_KEY
    today,          \* the clock, in days
    tagRequest,     \* arguments of a tag-synthesis call
    tagResult,      \* the tag list it returned
    midiFiles,      \* the batch given to analyzeMIDIFiles
    midiDone,       \* how many files of the batch the loop has processed
    midiAnalysis,   \* the MIDIAnalysis being built
    tempoTotals,    \* totalTempo and tempoCount of analyzeMIDIFiles
    db,             \* dbService.db: closed (null) or the open database
    savedDb,        \* the database exported under DB_NAME
    purgeCall,      \* the purgeData call that has just returned, if any
    samplesPurged,  \* the caller purged the samples and has added none since
    addCall         \* the addTracks or addSamples call that has just thrown, if any

dbVars == <<db, savedDb, purgeCall, samplesPurged, addCall>>

numericVars == <<file, request, audioContext, track, sampleTags,
                 retentionData, storage, today, dbVars>>
tagVars == <<tagRequest, tagResult>>
midiVars == <<midiFiles, midiDone, midiAnalysis, tempoTotals>>

vars == <<numericVars, detection, tagVars, midiVars>>

NoFeatures ==
    [spectralCentroid |-> NaN, spectralRolloff |-> NaN, zeroCrossingRate |-> NaN,
     mfcc |-> <<>>, chroma |-> <<>>, tempo |-> 0, energy |-> NaN,
     attack |-> NaN, sustain |-> NaN, decay |-> NaN]

NoDetection ==
    [status |-> "none", features |-> NoFeatures, instrumentType |-> "",
     confidence |-> 0, characteristics |-> extractCharacteristics(NoFeatures),
     tags |-> <<>>]

\* chroma records the vector detectKey computed for the key it returned
NoTrack ==
    [status |-> "none", genre |-> "", mood |-> "", key |-> <<>>, bpm |-> 0,
     tags |-> <<>>, chroma |-> <<>>]

NoSampleTags == [status |-> "none", tags |-> <<>>]

NoDb == [open |-> FALSE, tables |-> EmptyTables]
NoSavedDb == [present |-> FALSE, tables |-> EmptyTables]

NoPurgeOptions ==
    [purgeAll |-> FALSE, purgeTracks |-> FALSE, purgeSamples |-> FALSE,
     purgeNotes |-> FALSE, purgePlugins |-> FALSE, purgeProjectEvents |-> FALSE,
     purgeMLData |-> FALSE, purgeScanResults |-> FALSE]

NoCall == [fn |-> "none", options |-> NoPurgeOptions, before |-> <<>>,
           purgedCount |-> 0, purgedTypes |-> <<>>]

NoAdd == [fn |-> "none", batch |-> <<>>, threw |-> FALSE, retained |-> 0, stored |-> 0]

\* the application has not been started
DbIdle ==
    /\ db = NoDb
    /\ savedDb = NoSavedDb
    /\ purgeCall = NoCall
    /\ samplesPurged = FALSE
    /\ addCall = NoAdd

NoTagRequest == [fn |-> "none"]
NoTagResult == [status |-> "none", tags |-> <<>>]

\* the state of the services no call has been made to
NumericIdle ==
    /\ file = [name |-> <<>>, decodable |-> FALSE, buf |-> NoBuffer, timbre |-> (0 :> 1)]
    /\ request = "none"
    /\ audioContext = TRUE
    /\ track = NoTrack
    /\ sampleTags = NoSampleTags
    /\ retentionData = <<>>
    /\ storage = <<>>
    /\ today = 10
    /\ DbIdle
TagIdle ==
    /\ tagRequest = NoTagRequest
    /\ tagResult = NoTagResult
MidiIdle ==
    /\ midiFiles = <<>>
    /\ midiDone = 0
    /\ midiAnalysis = [status |-> "none"]
    /\ tempoTotals = [totalTempo |-> 0, tempoCount |-> 0]

Init ==
    /\ \/ audioContext = TRUE /\ file \in DecodableFiles
       \/ audioContext \in BOOLEAN /\ file \in BrokenFiles
    /\ request \in Requests
    /\ detection = NoDetection
    /\ track = NoTrack
    /\ sampleTags = NoSampleTags
    /\ retentionData = <<>>
    /\ storage = <<>>
    /\ today = 10
    /\ DbIdle
    /\ TagIdle
    /\ MidiIdle

\* analyzeAudioFile returns a result (it throws otherwise)
CanAnalyze == audioContext /\ file.decodable

\* the result of AudioAnalyzer.analyzeAudioFile
analyzeAudioFile(f) ==
    LET bpm == detectBPM(f.buf)
        chroma == Analyzer_calculateChromaFeatures(f.buf, f.timbre)
        key == detectKey(chroma)
    IN  [bpm |-> bpm,
         key |-> key,
         chroma |-> chroma,
         genre |-> Analyzer_inferGenreFromFilename(f.name),
         mood |-> Analyzer_inferMoodFromFilename(f.name),
         tags |-> Analyzer_generateTagsFromFilename(f.name, bpm, key)]

\* InstrumentDetector.detectInstrument up to the end of the awaited
\* extractAudioFeatures: it throws without an audio context and when
\* decodeAudioData rejects
ExtractAudioFeatures ==
    /\ request = "detectInstrument"
    /\ detection.status = "none"
    /\ IF audioContext /\ file.decodable
       THEN detection' = [NoDetection EXCEPT
                             !.status = "features",
                             !.features = extractAudioFeatures(file.buf, file.timbre)]
       ELSE detection' = [NoDetection EXCEPT !.status = "threw"]
    /\ UNCHANGED <<numericVars, tagVars, midiVars>>

\* the rest of detectInstrument, one statement a step
ClassifyInstrument ==
    /\ detection.status = "features"
    /\ detection' = [detection EXCEPT
                        !.status = "classified",
                        !.instrumentType = classifyInstrument(detection.features)]
    /\ UNCHANGED <<numericVars, tagVars, midiVars>>

CalculateConfidence ==
    /\ detection.status = "classified"
    /\ detection' = [detection EXCEPT
                        !.status = "scored",
                        !.confidence = calculateConfidence(detection.features,
                                                           detection.instrumentType),
                        !.characteristics = extractCharacteristics(detection.features)]
    /\ UNCHANGED <<numericVars, tagVars, midiVars>>

GenerateInstrumentTags ==
    /\ detection.status = "scored"
    /\ detection' = [detection EXCEPT
                        !.status = "ok",
                        !.tags = generateInstrumentTags(detection.instrumentType,
                                                        detection.features)]
    /\ UNCHANGED <<numericVars, tagVars, midiVars>>

\* analyzeAudioFile hands its result to dataRetentionService.retainMLAnalysis,
\* which appends it to the retention list and saves the list
RetainAnalysis(analysis) ==
    LET saved == retainMLAnalysis(retentionData, storage, today,
                                  "algorithmic_audio_analysis",
                                  [bpm |-> analysis.bpm, key |-> analysis.key,
                                   genre |-> analysis.genre, mood |-> analysis.mood,
                                   tags |-> analysis.tags])
    IN  /\ retentionData' = saved.retentionData
        /\ storage' = saved.storage

\* autoTagTrack returns the analysis
TrackAnalysed(analysis) ==
    /\ track' = [status |-> "analysed", genre |-> analysis.genre,
                 mood |-> analysis.mood, key |-> analysis.key,
                 bpm |-> analysis.bpm, tags |-> analysis.tags,
                 chroma |-> analysis.chroma]
    /\ RetainAnalysis(analysis)

\* autoTagTrack returns fallbackTagging(file.name) when the analysis throws
TrackFallback(fallback) ==
    /\ track' = [status |-> "fallback", genre |-> fallback.genre,
                 mood |-> fallback.mood, key |-> fallback.key,
                 bpm |-> fallback.bpm, tags |-> fallback.tags,
                 chroma |-> <<>>]
    /\ UNCHANGED <<retentionData, storage>>

\* AlgorithmicTaggingService.autoTagTrack
AutoTagTrack ==
    /\ request = "autoTagTrack"
    /\ track.status = "none"
    /\ IF CanAnalyze
       THEN TrackAnalysed(analyzeAudioFile(file))
       ELSE TrackFallback(fallbackTagging(file.name))
    /\ UNCHANGED <<file, request, audioContext, detection, sampleTags, today>>
    /\ UNCHANGED <<dbVars, tagVars, midiVars>>

\* autoTagSample returns the tags of the analysis
SampleAnalysed(analysis) ==
    /\ sampleTags' = [status |-> "analysed", tags |-> analysis.tags]
    /\ RetainAnalysis(analysis)

\* AlgorithmicTaggingService.autoTagSample
AutoTagSample ==
    /\ request = "autoTagSample"
    /\ sampleTags.status = "none"
    /\ IF CanAnalyze
       THEN SampleAnalysed(analyzeAudioFile(file))
       ELSE /\ sampleTags' = [status |-> "fallback",
                              tags |-> fallbackSampleTagging(file.name)]
            /\ UNCHANGED <<retentionData, storage>>
    /\ UNCHANGED <<file, request, audioContext, detection, track, today>>
    /\ UNCHANGED <<dbVars, tagVars, midiVars>>

Next ==
    \/ ExtractAudioFeatures
    \/ ClassifyInstrument
    \/ CalculateConfidence
    \/ GenerateInstrumentTags
    \/ AutoTagTrack
    \/ AutoTagSample

Spec == Init /\ [][Next]_vars

(***************************************************************************)
(* The classifier on its own: classifyInstrument, calculateConfidence and  *)
(* generateInstrumentTags applied, in the order of detectInstrument, to    *)
(* feature tuples on a grid around the thresholds of the rules.            *)
(***************************************************************************)
CentroidGrid == {Num(100), Num(250), Num(400), Num(700), Num(1200), Num(1700),
                 Num(2500), Num(3500), Num(4500)}
ZcrGrid == {NaN, Num(0), Num(60), Num(90), Num(120), Num(200)}
EnergyGrid == {NaN, Num(200), Num(350), Num(450), Num(550), Num(650), Num(800)}
AttackGrid == {Num(5000), Num(30000), Num(80000), Num(200000)}
SustainGrid == {NaN, Num(200), Num(350), Num(450), Num(550), Num(650), Num(800)}
DecayGrid == {Num(100000), Num(400000), Num(600000)}

FeatureTuples ==
    {[NoFeatures EXCEPT !.spectralCentroid = c, !.zeroCrossingRate = z, !.energy = e,
                        !.attack = a, !.sustain = u, !.decay = d] :
        c \in CentroidGrid, z \in ZcrGrid, e \in EnergyGrid,
        a \in AttackGrid, u \in SustainGrid, d \in DecayGrid}

InitClassify ==
    /\ NumericIdle
    /\ TagIdle
    /\ MidiIdle
    /\ \E f \in FeatureTuples :
          detection = [NoDetection EXCEPT !.status = "features", !.features = f]

NextClassify == ClassifyInstrument \/ CalculateConfidence \/ GenerateInstrumentTags

SpecClassify == InitClassify /\ [][NextClassify]_vars

(***************************************************************************)
(* The tag synthesizers on their own: every function that returns a tag    *)
(* list, applied to arguments of its own.                                  *)
(***************************************************************************)
MaxWords == 2

Labels == {"kick", "snare", "hihat", "bass", "lead", "pad", "vocal", "piano",
           "guitar", "string", "brass", "percussion", "unknown"}

TagFeatureTuples ==
    {[NoFeatures EXCEPT !.spectralCentroid = c, !.energy = e,
                        !.attack = a, !.sustain = u, !.decay = d] :
        c \in {Num(100), Num(400), Num(700), Num(2000), Num(4500)},
        e \in {NaN, Num(200), Num(500), Num(800)},
        a \in {Num(5000), Num(30000)},
        u \in {NaN, Num(500), Num(800)},
        d \in {Num(100000), Num(400000)}}

Words ==
    {<<"k", "i", "c", "k">>,
     <<"S", "n", "a", "r", "e">>,
     <<"H", "i", "-", "H", "a", "t">>,
     <<"v", "o", "c", "a", "l">>,
     <<"c", "h", "o", "i", "r">>,
     <<"b", "r", "a", "s", "s">>,
     <<"s", "a", "x">>,
     <<"8", "0", "8">>,
     <<"p", "u", "n", "c", "h", "y">>,
     <<"t", "r", "a", "p">>}

RECURSIVE JoinWords(_)
JoinWords(ws) ==
    IF ws = <<>> THEN <<>>
    ELSE IF Len(ws) = 1 THEN Head(ws)
    ELSE Head(ws) \o <<"_">> \o JoinWords(Tail(ws))

\* file names made of at most MaxWords words
WordNames == {JoinWords(ws) \o <<".", "w", "a", "v">> : ws \in SeqsUpTo(Words, MaxWords)}

TagRequests ==
    [fn : {"generateInstrumentTags"}, instrumentType : Labels, features : TagFeatureTuples]
    \cup [fn : {"Analyzer.generateTagsFromFilename", "Service.generateTagsFromFilename"},
          filename : WordNames, bpm : {60, 100, 120, 150},
          key : {<<"C">>, <<"A", "m">>, <<"F", "#", "m">>}]

InitTags ==
    /\ NumericIdle
    /\ detection = NoDetection
    /\ MidiIdle
    /\ tagRequest \in TagRequests
    /\ tagResult = NoTagResult

InstrumentTagsCall ==
    /\ tagRequest.fn = "generateInstrumentTags"
    /\ tagResult.status = "none"
    /\ tagResult' = [status |-> "returned",
                     tags |-> generateInstrumentTags(tagRequest.instrumentType,
                                                     tagRequest.features)]
    /\ UNCHANGED <<numericVars, detection, tagRequest, midiVars>>

AnalyzerTagsCall ==
    /\ tagRequest.fn = "Analyzer.generateTagsFromFilename"
    /\ tagResult.status = "none"
    /\ tagResult' = [status |-> "returned",
                     tags |-> Analyzer_generateTagsFromFilename(
                                  tagRequest.filename, tagRequest.bpm, tagRequest.key)]
    /\ UNCHANGED <<numericVars, detection, tagRequest, midiVars>>

\* the service passes the lower-cased name (fallbackTagging)
ServiceTagsCall ==
    /\ tagRequest.fn = "Service.generateTagsFromFilename"
    /\ tagResult.status = "none"
    /\ tagResult' = [status |-> "returned",
                     tags |-> Service_generateTagsFromFilename(
                                  toLowerCase(tagRequest.filename),
                                  tagRequest.bpm, tagRequest.key)]
    /\ UNCHANGED <<numericVars, detection, tagRequest, midiVars>>

NextTags == InstrumentTagsCall \/ AnalyzerTagsCall \/ ServiceTagsCall

SpecTags == InitTags /\ [][NextTags]_vars

(***************************************************************************)
(* analyzeMIDIFiles on a batch of files: the loop takes one file a step.   *)
(***************************************************************************)
MaxFiles == 2

MidiNames ==
    {<<"p", "i", "a", "n", "o", "_", "j", "a", "z", "z", "_", "1", "2", "0", "b", "p", "m", ".", "m", "i", "d">>,
     <<"G", "u", "i", "t", "a", "r", "_", "R", "o", "c", "k", ".", "m", "i", "d">>,
     <<"b", "a", "s", "s", "_", "d", "r", "u", "m", "s", "_", "f", "u", "n", "k", " ", "9", "0", " ", "b", "p", "m", ".", "m", "i", "d">>,
     <<"s", "a", "x", "_", "t", "r", "u", "m", "p", "e", "t", "_", "l", "a", "t", "i", "n", "_", "b", "p", "m", "1", "4", "0", ".", "m", "i", "d">>,
     <<"s", "o", "n", "g", "_", "2", "5", "0", "b", "p", "m", ".", "m", "i", "d">>,
     <<"s", "o", "l", "o", "1">>,
     <<"v", "i", "o", "l", "i", "n", "_", "f", "l", "u", "t", "e", "_", "o", "r", "g", "a", "n", "_", "s", "y", "n", "t", "h", "_", "c", "l", "a", "s", "s", "i", "c", "a", "l", ".", "m", "i", "d">>,
     <<"p", "i", "a", "n", "o", "_", "g", "u", "i", "t", "a", "r", "_", "b", "a", "s", "s", "_", "d", "r", "u", "m", "s", "_", "s", "a", "x", "_", "t", "r", "u", "m", "p", "e", "t", ".", "m", "i", "d">>,
     <<"h", "i", "p", "h", "o", "p", "_", "t", "r", "a", "p", "_", "6", "0", "b", "p", "m", ".", "m", "i", "d">>,
     <<"b", "b", "m", " ", "m", "i", "n", "o", "r", " ", "s", "w", "i", "n", "g", " ", "2", "0", "0", "b", "p", "m", ".", "m", "i", "d">>,
     <<"D", "r", "u", "m", "s", "_", "r", "e", "g", "g", "a", "e", "_", "b", "p", "m", "9", ".", "m", "i", "d">>,
     <<"c", "o", "u", "n", "t", "r", "y", "_", "p", "o", "p", "_", "1", "1", "2", "0", "b", "p", "m", ".", "m", "i", "d">>}

\* an element of the array that is not a File: it has no name, and
\* analyzeSingleMIDI throws on file.name.toLowerCase()
NamelessFile == [name |-> <<>>, named |-> FALSE]

MidiFileSet == {[name |-> n, named |-> TRUE] : n \in MidiNames} \cup {NamelessFile}

MidiBatches == SeqsUpTo(MidiFileSet, MaxFiles)

InitMidi ==
    /\ NumericIdle
    /\ detection = NoDetection
    /\ TagIdle
    /\ midiFiles \in MidiBatches
    /\ midiDone = 0
    /\ midiAnalysis = [status |-> "none"]
    /\ tempoTotals = [totalTempo |-> 0, tempoCount |-> 0]

\* analyzeMIDIFiles up to the loop
BeginAnalysis ==
    /\ midiAnalysis.status = "none"
    /\ midiAnalysis' = [status |-> "running",
                        instruments |-> <<>>, genres |-> <<>>, tempos |-> <<>>,
                        keys |-> <<>>, timeSignatures |-> <<>>, fileCategories |-> <<>>,
                        totalFiles |-> Len(midiFiles), averageTempo |-> 0,
                        mostCommonInstrument |-> "", mostCommonGenre |-> "",
                        learningGaps |-> <<>>, recommendations |-> <<>>]
    /\ UNCHANGED <<numericVars, detection, tagVars, midiFiles, midiDone, tempoTotals>>

\* the try block of the loop for a file analyzeSingleMIDI accepts
FileAggregated(nextFile, fileAnalysis, category) ==
    /\ midiAnalysis' =
          [midiAnalysis EXCEPT
             !.instruments = Aggregate(@, fileAnalysis.instruments),
             !.genres = Aggregate(@, fileAnalysis.genres),
             !.tempos = Aggregate(@, fileAnalysis.tempos),
             !.keys = Aggregate(@, fileAnalysis.keys),
             !.timeSignatures = Aggregate(@, fileAnalysis.timeSignatures),
             !.fileCategories = FileInCategory(@, category, nextFile.name)]
    /\ tempoTotals' = [totalTempo |-> tempoTotals.totalTempo + fileAnalysis.averageTempo,
                       tempoCount |-> tempoTotals.tempoCount + 1]

\* the body of the loop for the next file: when analyzeSingleMIDI throws, the
\* catch block logs the error and the loop goes on
AnalyzeNextFile ==
    /\ midiAnalysis.status = "running"
    /\ midiDone < Len(midiFiles)
    /\ IF midiFiles[midiDone + 1].named
       THEN FileAggregated(midiFiles[midiDone + 1],
                           analyzeSingleMIDI(midiFiles[midiDone + 1]),
                           categorizeFile(midiFiles[midiDone + 1].name))
       ELSE UNCHANGED <<midiAnalysis, tempoTotals>>
    /\ midiDone' = midiDone + 1
    /\ UNCHANGED <<numericVars, detection, tagVars, midiFiles>>

\* analyzeMIDIFiles after the loop; averageTempo in thousandths
FinishAnalysis ==
    /\ midiAnalysis.status = "running"
    /\ midiDone = Len(midiFiles)
    /\ LET totalTempo == tempoTotals.totalTempo
           tempoCount == tempoTotals.tempoCount
           analysis == [midiAnalysis EXCEPT
                          !.averageTempo = IF tempoCount > 0
                                           THEN (1000 * totalTempo) \div tempoCount ELSE 0,
                          !.mostCommonInstrument = findMostCommon(midiAnalysis.instruments),
                          !.mostCommonGenre = findMostCommon(midiAnalysis.genres)]
       IN  midiAnalysis' =
               [analysis EXCEPT
                  !.status = "returned",
                  !.learningGaps = identifyLearningGaps(analysis),
                  !.recommendations = generateRecommendations(analysis, totalTempo, tempoCount)]
    /\ UNCHANGED <<numericVars, detection, tagVars, midiFiles, midiDone, tempoTotals>>

NextMidi == BeginAnalysis \/ AnalyzeNextFile \/ FinishAnalysis

SpecMidi == InitMidi /\ [][NextMidi]_vars

(***************************************************************************)
(* The application database and the retention store over the life of the   *)
(* application: start (initDB), imports, purges, days passing, restarts.   *)
(* saveDatabase is taken to succeed (the exported database is small).      *)
(***************************************************************************)
MaxItems == 5
LastDay == 18

\* the analysis services are not called
EngineIdle ==
    /\ file = [name |-> <<>>, decodable |-> FALSE, buf |-> NoBuffer, timbre |-> (0 :> 1)]
    /\ request = "none"
    /\ audioContext = TRUE
    /\ detection = NoDetection
    /\ track = NoTrack
    /\ sampleTags = NoSampleTags
    /\ TagIdle
    /\ MidiIdle

engineVars == <<file, request, audioContext, detection, track, sampleTags,
                tagVars, midiVars>>

\* first launch: nothing is stored yet
InitStore ==
    /\ EngineIdle
    /\ retentionData = <<>>
    /\ storage = <<>>
    /\ today = 10
    /\ DbIdle

Store == [retentionData |-> retentionData, storage |-> storage]

PurgeOptionSets ==
    {[NoPurgeOptions EXCEPT !.purgeAll = TRUE],
     [NoPurgeOptions EXCEPT !.purgeAll = TRUE, !.purgeSamples = TRUE, !.purgeMLData = TRUE],
     [NoPurgeOptions EXCEPT !.purgeSamples = TRUE],
     [NoPurgeOptions EXCEPT !.purgeTracks = TRUE, !.purgeSamples = TRUE],
     [NoPurgeOptions EXCEPT !.purgeScanResults = TRUE, !.purgeMLData = TRUE],
     NoPurgeOptions}

\* the length of the JSON text of the scan of a large folder
ScanSizes == {1200000}

\* batches the application adds: an imported row, and a batch whose second
\* row cannot be bound
SampleBatches == {<<"smpl_usr">>, <<"smpl_usr", "smpl_bad">>}
TrackBatches == {<<"trk_usr">>, <<"trk_usr", "trk_bad">>}

\* how many items of the list were retained for rows of the batch
ItemsOf(data, rows) ==
    Cardinality({i \in 1..Len(data) :
                    /\ data[i].type \in {"track", "sample"}
                    /\ \E r \in 1..Len(rows) : data[i].data = rows[r]})

\* what is known of an addTracks or addSamples call once it has ended
Called(fn, batch) ==
    IF BoundRows(batch) # batch
    THEN [fn |-> fn, batch |-> batch, threw |-> TRUE,
          retained |-> ItemsOf(retentionData, batch), stored |-> ItemsOf(storage, batch)]
    ELSE NoAdd

\* backups a caller can import
Backups ==
    {<<[type |-> "note", data |-> "note_bak", timestamp |-> 10,
        source |-> "user_input", size |-> 300]>>}

\* initDB has loaded the tables and seeded them when there are no tracks
Started(seeded) ==
    /\ db' = [open |-> TRUE, tables |-> seeded.tables]
    /\ savedDb' = [present |-> TRUE, tables |-> seeded.tables]
    /\ retentionData' = seeded.store.retentionData
    /\ storage' = seeded.store.storage

\* the tables initDB starts from
LoadedTables == IF savedDb.present THEN savedDb.tables ELSE EmptyTables

\* dbService.initDB
InitDB ==
    /\ ~db.open
    /\ IF LoadedTables.tracks = {}
       THEN Started(seedDatabase(LoadedTables, Store, today))
       ELSE Started([tables |-> LoadedTables, store |-> Store])
    /\ purgeCall' = NoCall
    /\ addCall' = NoAdd
    /\ UNCHANGED <<today, samplesPurged, engineVars>>

\* the tables and the store after a dbService call, and saveDatabase
Added(result) ==
    /\ db' = [db EXCEPT !.tables = result.tables]
    /\ savedDb' = IF result.threw THEN savedDb
                  ELSE [present |-> TRUE, tables |-> result.tables]
    /\ retentionData' = result.store.retentionData
    /\ storage' = result.store.storage

\* dbService.addSamples, called by the application for an imported sample
AddSamples ==
    /\ db.open
    /\ Len(retentionData) < MaxItems
    /\ \E samples \in SampleBatches :
          /\ Added(addSamples(db.tables, Store, today, samples))
          /\ addCall' = Called("addSamples", samples)
    /\ samplesPurged' = FALSE
    /\ purgeCall' = NoCall
    /\ UNCHANGED <<today, engineVars>>

\* dbService.addTracks, called by the application for an imported track
AddTracks ==
    /\ db.open
    /\ Len(retentionData) < MaxItems
    /\ \E tracks \in TrackBatches :
          /\ Added(addTracks(db.tables, Store, today, tracks))
          /\ addCall' = Called("addTracks", tracks)
    /\ purgeCall' = NoCall
    /\ UNCHANGED <<today, samplesPurged, engineVars>>

Retained(saved) ==
    /\ retentionData' = saved.retentionData
    /\ storage' = saved.storage

\* dataRetentionService.retainScanResult, which calls retainData
RetainScanResult ==
    /\ Len(retentionData) < MaxItems
    /\ \E size \in ScanSizes :
          Retained(retainScanResult(retentionData, storage, today, "folder_scan", size))
    /\ purgeCall' = NoCall
    /\ addCall' = NoAdd
    /\ UNCHANGED <<today, db, savedDb, samplesPurged, engineVars>>

\* the list, the stored text and the returned value of a purgeData call
Purged(options, result) ==
    /\ retentionData' = result.retentionData
    /\ storage' = result.storage
    /\ purgeCall' = [fn |-> "purgeData", options |-> options, before |-> retentionData,
                    purgedCount |-> result.purgedCount,
                    purgedTypes |-> result.purgedTypes]
    /\ addCall' = NoAdd

\* dataRetentionService.purgeData called with the options of the caller
PurgeData ==
    /\ \E options \in PurgeOptionSets :
          Purged(options, purgeData(retentionData, storage, today, options))
    /\ UNCHANGED <<today, db, savedDb, samplesPurged, engineVars>>

\* dbService.purgeSamples
PurgeSamples ==
    /\ db.open
    /\ db' = [db EXCEPT !.tables.samples = {}]
    /\ savedDb' = [present |-> TRUE, tables |-> [db.tables EXCEPT !.samples = {}]]
    /\ Purged([NoPurgeOptions EXCEPT !.purgeSamples = TRUE],
              purgeData(retentionData, storage, today,
                        [NoPurgeOptions EXCEPT !.purgeSamples = TRUE]))
    /\ samplesPurged' = TRUE
    /\ UNCHANGED <<today, engineVars>>

\* dbService.purgeTracks
PurgeTracks ==
    /\ db.open
    /\ db' = [db EXCEPT !.tables.tracks = {}]
    /\ savedDb' = [present |-> TRUE, tables |-> [db.tables EXCEPT !.tracks = {}]]
    /\ Purged([NoPurgeOptions EXCEPT !.purgeTracks = TRUE],
              purgeData(retentionData, storage, today,
                        [NoPurgeOptions EXCEPT !.purgeTracks = TRUE]))
    /\ UNCHANGED <<today, samplesPurged, engineVars>>

\* dbService.purgeAllData
PurgeAllData ==
    /\ db.open
    /\ db' = [db EXCEPT !.tables = EmptyTables]
    /\ savedDb' = [present |-> TRUE, tables |-> EmptyTables]
    /\ Purged([NoPurgeOptions EXCEPT !.purgeAll = TRUE],
              purgeData(retentionData, storage, today,
                        [NoPurgeOptions EXCEPT !.purgeAll = TRUE]))
    /\ samplesPurged' = TRUE
    /\ UNCHANGED <<today, engineVars>>

\* dataRetentionService.importRetentionData
ImportRetentionData ==
    /\ \E backup \in Backups :
          Retained(importRetentionData(storage, today, backup))
    /\ purgeCall' = NoCall
    /\ addCall' = NoAdd
    /\ UNCHANGED <<today, db, savedDb, samplesPurged, engineVars>>

\* dataRetentionService.forceCleanup
ForceCleanup ==
    /\ Retained(forceCleanup(retentionData, storage, today))
    /\ purgeCall' = NoCall
    /\ addCall' = NoAdd
    /\ UNCHANGED <<today, db, savedDb, samplesPurged, engineVars>>

\* eight days go by
DaysPass ==
    /\ today + 8 <= LastDay
    /\ today' = today + 8
    /\ purgeCall' = NoCall
    /\ addCall' = NoAdd
    /\ UNCHANGED <<retentionData, storage, db, savedDb, samplesPurged, engineVars>>

\* the page is closed and opened again: the modules are loaded anew, db is
\* null and the retention service reads its list from storage
Restart ==
    /\ db.open
    /\ Len(storage) + Len(mockSamples) <= MaxItems
    /\ db' = NoDb
    /\ retentionData' = loadRetentionData(storage)
    /\ purgeCall' = NoCall
    /\ addCall' = NoAdd
    /\ UNCHANGED <<storage, today, savedDb, samplesPurged, engineVars>>

NextStore ==
    \/ InitDB
    \/ AddSamples
    \/ AddTracks
    \/ RetainScanResult
    \/ PurgeData
    \/ PurgeSamples
    \/ PurgeTracks
    \/ PurgeAllData
    \/ ImportRetentionData
    \/ ForceCleanup
    \/ DaysPass
    \/ Restart

SpecStore == InitStore /\ [][NextStore]_vars

(***************************************************************************)
(* Properties of the numeric path.                                         *)
(***************************************************************************)
\* C1: the tempo reported by InstrumentDetector.detectTempo and by
\* AudioAnalyzer.detectBPM is an integer within [60, 200] for every buffer.
C1_TempoWithinRange ==
    /\ detection.status = "ok" =>
           detection.features.tempo >= 60 /\ detection.features.tempo <= 200
    /\ track.status = "analysed" => track.bpm >= 60 /\ track.bpm <= 200

\* C2: for a silent buffer extractAudioFeatures yields spectralCentroid 0,
\* twelve zero chroma entries, thirteen zero mel-band entries and tempo 120.
C2_SilentFeaturesZero ==
    (detection.status = "ok" /\ Silent(file.buf)) =>
        /\ detection.features.spectralCentroid = Num(0)
        /\ detection.features.chroma = [c \in 1..12 |-> 0]
        /\ detection.features.mfcc = [f \in 1..13 |-> Num(0)]
        /\ detection.features.tempo = 120

\* the envelope has one value only: silent (all zero) or flat
FlatEnvelope(envelope) == \A i, j \in 1..Len(envelope) : envelope[i] = envelope[j]

\* C3: on a silent or flat envelope calculateADSR returns attack = 0,
\* sustain = 0 and decay = 0, each a defined number.
C3_FlatEnvelopeZero ==
    (detection.status = "ok" /\ FlatEnvelope(calculateEnvelope(file.buf))) =>
        /\ detection.features.attack = Num(0)
        /\ detection.features.sustain = Num(0)
        /\ detection.features.decay = Num(0)

\* C4: the chroma vector has exactly 12 elements and the mel-band vector
\* exactly 13, also for buffers shorter than the FFT window.
C4_VectorLengths ==
    /\ detection.status = "ok" =>
           /\ Len(detection.features.chroma) = 12
           /\ Len(detection.features.mfcc) = 13
    /\ track.status = "analysed" => Len(track.chroma) = 12

C4_Witness ==
    /\ detection.status = "ok"
    /\ Length(file.buf) > 0
    /\ Length(file.buf) < fftSize
    /\ ~Silent(file.buf)

\* C9: the confidence of a detection result is in [0, 1] and its sustain
\* ratio is in [0, 1], for every buffer.
C9_BoundedFields ==
    detection.status = "ok" =>
        /\ detection.confidence >= 0 /\ detection.confidence <= 1000
        /\ Ge(detection.characteristics.sustain, 0)
        /\ Le(detection.characteristics.sustain, 1000)


(***************************************************************************)
(* Properties of the tag synthesizers.                                     *)
(***************************************************************************)
NoDuplicates(tags) == \A i, j \in 1..Len(tags) : i # j => tags[i] # tags[j]

\* the tags the call pushed, before duplicates were removed
TagsPushed(r) ==
    CASE r.fn = "generateInstrumentTags" ->
            InstrumentTagsPushed(r.instrumentType, r.features)
      [] r.fn = "Analyzer.generateTagsFromFilename" ->
            Analyzer_TagsPushed(r.filename, r.bpm, r.key)
      [] r.fn = "Service.generateTagsFromFilename" ->
            Service_TagsPushed(toLowerCase(r.filename), r.bpm, r.key)

\* C5: the list returned by generateInstrumentTags and by either
\* generateTagsFromFilename holds no tag twice, whatever rules fired.
C5_TagsHaveNoDuplicates ==
    tagResult.status = "returned" => NoDuplicates(tagResult.tags)

\* a call whose rules pushed the same tag more than once
C5_Witness ==
    /\ tagResult.status = "returned"
    /\ ~NoDuplicates(TagsPushed(tagRequest))
    /\ Len(tagResult.tags) < Len(TagsPushed(tagRequest))

(***************************************************************************)
(* Properties of the classifier.                                           *)
(***************************************************************************)
RuleOrder == <<"kick", "snare", "hihat", "bass", "lead", "pad", "vocal", "piano",
               "guitar", "string", "brass", "percussion">>

Classified == detection.status \in {"classified", "scored", "ok"}

\* C7: classifyInstrument returns the label of the first rule that holds, the
\* rules taken in the order kick, snare, hihat, bass, lead, pad, vocal, piano,
\* guitar, string, brass, percussion, and 'unknown' when none holds; a tuple
\* that satisfies the kick rule is a kick whatever later rule it satisfies.
C7_FirstMatchingRule ==
    Classified =>
        /\ detection.instrumentType = FirstMatch(RuleOrder, detection.features)
        /\ RuleCondition("kick", detection.features) => detection.instrumentType = "kick"

\* a tuple that satisfies the kick, the bass and the percussion rule
C7_Witness ==
    /\ Classified
    /\ RuleCondition("kick", detection.features)
    /\ RuleCondition("bass", detection.features)
    /\ RuleCondition("percussion", detection.features)
    /\ detection.instrumentType = "kick"

\* C8: every label other than 'unknown' gets the base 0.5 plus its bonuses,
\* so at least 0.5 and at most 1; 0.3 is the confidence of 'unknown' only.
C8_MatchedClassConfidence ==
    detection.status \in {"scored", "ok"} =>
        /\ detection.instrumentType # "unknown" =>
                detection.confidence >= 500 /\ detection.confidence <= 1000
        /\ detection.confidence = 300 => detection.instrumentType = "unknown"

(***************************************************************************)
(* Properties of the MIDI batch analysis.                                  *)
(***************************************************************************)
InList(list, x) == \E i \in 1..Len(list) : list[i] = x

\* C10: learningGaps holds 'Missing X training data' exactly for the X among
\* Piano, Guitar, Bass, Drums, Saxophone, Trumpet that the accumulated
\* instruments table does not count.
C10_MissingInstrumentGaps ==
    midiAnalysis.status = "returned" =>
        \A X \in {"Piano", "Guitar", "Bass", "Drums", "Saxophone", "Trumpet"} :
            InList(midiAnalysis.learningGaps, "Missing " \o X \o " training data")
                <=> ~InList(Keys(midiAnalysis.instruments), X)

\* a batch that names a saxophone and a trumpet and no piano
C10_Witness ==
    /\ midiAnalysis.status = "returned"
    /\ InList(Keys(midiAnalysis.instruments), "Saxophone")
    /\ InList(Keys(midiAnalysis.instruments), "Trumpet")
    /\ InList(midiAnalysis.learningGaps, "Missing Piano training data")
    /\ ~InList(midiAnalysis.learningGaps, "Missing Trumpet training data")

\* the keywords the six common instruments are named by
CommonInstrumentWords ==
    {<<"p", "i", "a", "n", "o">>, <<"g", "u", "i", "t", "a", "r">>, <<"b", "a", "s", "s">>,
     <<"d", "r", "u", "m", "s">>, <<"s", "a", "x", "o", "p", "h", "o", "n", "e">>,
     <<"t", "r", "u", "m", "p", "e", "t">>}

\* no file of the batch names one of the six common instruments
NoCommonInstrumentNamed ==
    \A i \in 1..Len(midiFiles) : \A w \in CommonInstrumentWords :
        ~Includes(toLowerCase(midiFiles[i].name), w)

MissingEntries ==
    {"Missing " \o commonInstruments[i] \o " training data" : i \in 1..Len(commonInstruments)}

\* C11: for a corpus whose file names hold none of the keywords piano, guitar,
\* bass, drums, saxophone, trumpet, learningGaps has six 'Missing X training
\* data' entries, one for each of the six common instruments.
C11_SixGapsWithoutKeywords ==
    (/\ midiAnalysis.status = "returned"
     /\ midiFiles # <<>>
     /\ \A i \in 1..Len(midiFiles) : midiFiles[i].named
     /\ NoCommonInstrumentNamed) =>
        /\ \A e \in MissingEntries : InList(midiAnalysis.learningGaps, e)
        /\ Cardinality({i \in 1..Len(midiAnalysis.learningGaps) :
                           midiAnalysis.learningGaps[i] \in MissingEntries}) = 6

(***************************************************************************)
(* Properties of the tagging entry points.                                 *)
(***************************************************************************)
SetOf(list) == {list[i] : i \in 1..Len(list)}

\* the name matches no genre, mood or tag keyword of AudioAnalyzer: the only
\* tags pushed for it are those of the tempo and of the key
NoAnalyzerKeyword(name) ==
    /\ Analyzer_inferGenreFromFilename(name) = "Unknown"
    /\ Analyzer_inferMoodFromFilename(name) = "Neutral"
    /\ Analyzer_TagsPushed(name, 100, KeyC) = <<"mid-tempo", "major">>

\* C12: for a silent buffer and a file name that matches no keyword,
\* analyzeAudioFile returns bpm 120, key 'C', genre 'Unknown', mood 'Neutral'
\* and a tag set equal to {'major'}.
C12_SilentDefaults ==
    (track.status = "analysed" /\ Silent(file.buf) /\ NoAnalyzerKeyword(file.name)) =>
        /\ track.bpm = 120
        /\ track.key = KeyC
        /\ track.genre = "Unknown"
        /\ track.mood = "Neutral"
        /\ SetOf(track.tags) = {"major"}

Kick == <<"k", "i", "c", "k">>
Trap == <<"t", "r", "a", "p">>

\* what the claim asks of the tags returned for a file name
KickAndTrapTagged(name, tags) ==
    /\ Includes(toLowerCase(name), Kick) => {"kick", "drum"} \subseteq SetOf(tags)
    /\ Includes(toLowerCase(name), Trap) => "trap" \in SetOf(tags)

\* C13: on the filename fallback path the tags include 'kick' and 'drum'
\* whenever the lower-cased name contains 'kick', and 'trap' whenever it
\* contains 'trap', whatever the letter case of the name.
C13_FallbackKickTrap ==
    /\ track.status = "fallback" => KickAndTrapTagged(file.name, track.tags)
    /\ sampleTags.status = "fallback" => KickAndTrapTagged(file.name, sampleTags.tags)

\* the fallback ran on a name that spells kick and trap with capitals
C13_Witness ==
    /\ track.status = "fallback"
    /\ ~Includes(file.name, Kick)
    /\ ~Includes(file.name, Trap)
    /\ Includes(toLowerCase(file.name), Kick)
    /\ Includes(toLowerCase(file.name), Trap)
    /\ {"kick", "drum", "trap"} \subseteq SetOf(track.tags)

\* the genre and mood keywords of AlgorithmicTaggingService
ServiceKeywords ==
    {<<"b", "a", "s", "s">>, <<"8", "0", "8">>, <<"t", "r", "a", "p">>,
     <<"k", "i", "c", "k">>, <<"d", "r", "u", "m">>, <<"p", "e", "r", "c">>,
     <<"g", "u", "i", "t", "a", "r">>, <<"a", "c", "o", "u", "s", "t", "i", "c">>,
     <<"p", "i", "a", "n", "o">>, <<"k", "e", "y", "s">>,
     <<"s", "y", "n", "t", "h">>, <<"p", "a", "d">>,
     <<"v", "o", "c", "a", "l">>, <<"v", "o", "i", "c", "e">>,
     <<"a", "m", "b", "i", "e", "n", "t">>, <<"a", "t", "m", "o", "s", "p", "h", "e", "r", "i", "c">>,
     <<"d", "a", "r", "k">>, <<"h", "e", "a", "v", "y">>, <<"a", "g", "g", "r", "e", "s", "s", "i", "v", "e">>,
     <<"h", "a", "p", "p", "y">>, <<"b", "r", "i", "g", "h", "t">>, <<"u", "p", "l", "i", "f", "t", "i", "n", "g">>,
     <<"s", "a", "d">>, <<"m", "e", "l", "a", "n", "c", "h", "o", "l", "y">>, <<"d", "e", "p", "r", "e", "s", "s", "e", "d">>,
     <<"e", "n", "e", "r", "g", "e", "t", "i", "c">>, <<"p", "u", "m", "p">>, <<"i", "n", "t", "e", "n", "s", "e">>,
     <<"c", "h", "i", "l", "l">>, <<"r", "e", "l", "a", "x">>, <<"c", "a", "l", "m">>}

NoServiceKeyword(name) == \A w \in ServiceKeywords : ~Includes(toLowerCase(name), w)

\* C14: when the numeric path throws (no audio context, or decodeAudioData
\* rejects) autoTagTrack and autoTagSample still return: the filename fallback,
\* with bpm 120 and key 'C', and with genre 'Unknown' and mood 'Neutral' for a
\* name that matches no keyword.
C14_FallbackOnThrow ==
    /\ (request = "autoTagTrack" /\ track.status # "none" /\ ~CanAnalyze) =>
          /\ track.status = "fallback"
          /\ track.bpm = 120
          /\ track.key = <<"C">>
          /\ NoServiceKeyword(file.name) =>
                track.genre = "Unknown" /\ track.mood = "Neutral"
    /\ (request = "autoTagSample" /\ sampleTags.status # "none" /\ ~CanAnalyze) =>
          /\ sampleTags.status = "fallback"
          /\ "major" \in SetOf(sampleTags.tags)
          /\ "up-tempo" \in SetOf(sampleTags.tags)

\* no audio context could be made, and the name matches no keyword
C14_Witness ==
    /\ ~audioContext
    /\ NoServiceKeyword(file.name)
    /\ track.status = "fallback"
    /\ track.genre = "Unknown"
    /\ track.bpm = 120

\* C15: no entry point ends with an error: detectInstrumentFromFile,
\* autoTagTrack and autoTagSample return a populated result also when no audio
\* context is available or decodeAudioData rejects.
C15_NoEntryPointThrows ==
    /\ detection.status # "threw"
    /\ track.status # "none" => track.key # <<>> /\ track.tags # <<>>
    /\ sampleTags.status # "none" => sampleTags.tags # <<>>

\* the files of the batch whose analysis did not throw
AnalysedFiles == SelectSeq(midiFiles, LAMBDA f : f.named)

\* the sum of the counts of a frequency table
TotalCount(table) == SumSeq([i \in 1..Len(table) |-> table[i].count])

\* the number of file names filed under the categories
FilesCategorised(fileCategories) ==
    SumSeq([i \in 1..Len(fileCategories) |-> Len(fileCategories[i].files)])

\* the counts of the summary other than totalFiles leave the failed files out
C16_TablesLeaveFailedOut ==
    midiAnalysis.status = "returned" =>
        /\ midiDone = Len(midiFiles)
        /\ TotalCount(midiAnalysis.timeSignatures) = Len(AnalysedFiles)
        /\ TotalCount(midiAnalysis.keys) = Len(AnalysedFiles)
        /\ TotalCount(midiAnalysis.tempos) <= Len(AnalysedFiles)
        /\ TotalCount(midiAnalysis.genres) >= Len(AnalysedFiles)
        /\ TotalCount(midiAnalysis.instruments) >= Len(AnalysedFiles)
        /\ FilesCategorised(midiAnalysis.fileCategories) = Len(AnalysedFiles)
        /\ tempoTotals.tempoCount = Len(AnalysedFiles)
        /\ Len(AnalysedFiles) = 0 =>
              midiAnalysis.instruments = <<>> /\ midiAnalysis.averageTempo = 0

\* C16: when the analysis of a file of the batch throws, analyzeMIDIFiles goes
\* on to the remaining files and returns a summary in which the failed file is
\* counted nowhere: not in the five frequency tables, not in fileCategories,
\* not in averageTempo and not in totalFiles.
C16_FailedFileNotCounted ==
    midiAnalysis.status = "returned" =>
        /\ C16_TablesLeaveFailedOut
        /\ midiAnalysis.totalFiles = Len(AnalysedFiles)

\* C17: a per-file analysis changes no state shared between invocations: the
\* step in which analyzeAudioFile returns (through autoTagTrack or
\* autoTagSample) leaves the retention list and its persisted copy as they were.
C17_AnalysisLeavesStoreUnchanged ==
    [][(track'.status = "analysed" \/ sampleTags'.status = "analysed")
          => UNCHANGED <<retentionData, storage>>]_vars

(***************************************************************************)
(* Properties of the retention store and the database.                     *)
(***************************************************************************)
HasSample(data) == \E i \in 1..Len(data) : data[i].type = "sample"

\* C18: once purgeSamples or purgeAllData has completed, the samples table
\* and the retention store hold no sample in any later state, also after a
\* restart that runs initDB, until a caller adds samples again.
C18_PurgedSamplesStayGone ==
    samplesPurged =>
        /\ db.tables.samples = {}
        /\ ~HasSample(retentionData)

\* C19: after every call that saves (retainData, purgeData,
\* importRetentionData, forceCleanup) the list persisted under the storage
\* key equals the retention list in memory, also when the save runs the
\* size-limit cleanup.
C19_PersistedEqualsMemory == storage = retentionData

\* the purgeData call that has just returned removed exactly the items of the
\* flagged types, and returned their number
ExactlySelectedRemoved ==
    LET isKept(item) == KeptByPurge(item, purgeCall.options)
        expected == IF purgeCall.options.purgeAll THEN <<>>
                    ELSE SelectSeq(purgeCall.before, isKept)
    IN  /\ retentionData = expected
        /\ purgeCall.purgedCount = Len(purgeCall.before) - Len(retentionData)

\* C20: purgeData with purgeAll = false removes exactly the items whose type
\* has its flag set, leaves the others unchanged and in order, and returns
\* the number removed; with purgeAll = true the store becomes empty and
\* purgedCount is its previous size, whatever the other flags.
C20_PurgeRemovesOnlySelected ==
    purgeCall.fn = "purgeData" => ExactlySelectedRemoved

(***************************************************************************)
(* Properties of the corpus summary: tempo and permutations.               *)
(***************************************************************************)
\* the file's name carries a BPM number within the accepted range 40..200
YieldsTempo(midiFile) ==
    /\ midiFile.named
    /\ TempoMatch(toLowerCase(midiFile.name)).matched
    /\ parseInt(TempoMatch(toLowerCase(midiFile.name)).group) >= 40
    /\ parseInt(TempoMatch(toLowerCase(midiFile.name)).group) <= 200

TempoFiles == SelectSeq(midiFiles, YieldsTempo)

TempoSum == SumSeq([i \in 1..Len(TempoFiles) |->
                       parseInt(TempoMatch(toLowerCase(TempoFiles[i].name)).group)])

\* C21: averageTempo of a batch is the mean over exactly the files that
\* yielded a tempo: a file whose name carries no BPM, or a BPM outside the
\* accepted range, adds nothing to the tempo sum or to its divisor.
C21_AverageOverTempoFiles ==
    midiAnalysis.status = "returned" =>
        /\ tempoTotals.tempoCount = Len(TempoFiles)
        /\ tempoTotals.totalTempo = TempoSum
        /\ midiAnalysis.averageTempo =
              IF Len(TempoFiles) > 0 THEN (1000 * TempoSum) \div Len(TempoFiles) ELSE 0

\* the try block of the loop of analyzeMIDIFiles as a function of the totals
Accumulated(totals, fileAnalysis) ==
    [instruments |-> Aggregate(totals.instruments, fileAnalysis.instruments),
     genres |-> Aggregate(totals.genres, fileAnalysis.genres),
     tempos |-> Aggregate(totals.tempos, fileAnalysis.tempos),
     keys |-> Aggregate(totals.keys, fileAnalysis.keys),
     timeSignatures |-> Aggregate(totals.timeSignatures, fileAnalysis.timeSignatures),
     totalTempo |-> totals.totalTempo + fileAnalysis.averageTempo,
     tempoCount |-> totals.tempoCount + 1]

\* the loop of analyzeMIDIFiles over a whole batch, first file first
RECURSIVE CorpusTables(_)
CorpusTables(files) ==
    IF files = <<>>
    THEN [instruments |-> <<>>, genres |-> <<>>, tempos |-> <<>>, keys |-> <<>>,
          timeSignatures |-> <<>>, totalTempo |-> 0, tempoCount |-> 0]
    ELSE IF files[Len(files)].named
    THEN Accumulated(CorpusTables(SubSeq(files, 1, Len(files) - 1)),
                     analyzeSingleMIDI(files[Len(files)]))
    ELSE CorpusTables(SubSeq(files, 1, Len(files) - 1))

\* a frequency table as the mapping from its keys to their counts
AsMapping(table) == {<<table[i].key, table[i].count>> : i \in 1..Len(table)}

Orders(n) == {p \in [1..n -> 1..n] : \A i, j \in 1..n : p[i] = p[j] => i = j}

Permuted(files) == {[i \in 1..Len(files) |-> files[p[i]]] : p \in Orders(Len(files))}

\* the summary that analyzeMIDIFiles returns for such totals
SameSummary(totals, analysis) ==
    /\ AsMapping(totals.instruments) = AsMapping(analysis.instruments)
    /\ AsMapping(totals.genres) = AsMapping(analysis.genres)
    /\ AsMapping(totals.tempos) = AsMapping(analysis.tempos)
    /\ AsMapping(totals.keys) = AsMapping(analysis.keys)
    /\ AsMapping(totals.timeSignatures) = AsMapping(analysis.timeSignatures)
    /\ analysis.averageTempo = IF totals.tempoCount > 0
                               THEN (1000 * totals.totalTempo) \div totals.tempoCount
                               ELSE 0

\* C22: analysing any permutation of the same batch of files yields the same
\* instruments, genres, tempos, keys and timeSignatures counts, the same
\* totalFiles and the same averageTempo as the batch analysed in its own order.
C22_PermutationSameSummary ==
    midiAnalysis.status = "returned" =>
        /\ midiAnalysis.totalFiles = Len(midiFiles)
        /\ CorpusTables(midiFiles).instruments = midiAnalysis.instruments
        /\ CorpusTables(midiFiles).keys = midiAnalysis.keys
        /\ \A other \in Permuted(midiFiles) :
              /\ Len(other) = midiAnalysis.totalFiles
              /\ SameSummary(CorpusTables(other), midiAnalysis)

\* a returned summary of two different files that share an instrument
C22_Witness ==
    /\ midiAnalysis.status = "returned"
    /\ Len(midiFiles) = 2
    /\ midiFiles[1] # midiFiles[2]
    /\ midiFiles[1].named /\ midiFiles[2].named
    /\ \E i \in 1..Len(midiAnalysis.instruments) : midiAnalysis.instruments[i].count = 2
    /\ Len(midiAnalysis.genres) = 2

(***************************************************************************)
(* Properties of the key estimate and the chroma vector.                   *)
(***************************************************************************)
\* the twelve pitch classes, index 0 = C
PitchClasses ==
    <<<<"C">>, <<"C", "#">>, <<"D">>, <<"D", "#">>, <<"E">>, <<"F">>,
      <<"F", "#">>, <<"G">>, <<"G", "#">>, <<"A">>, <<"A", "#">>, <<"B">>>>

\* the key named by a root and a mode, as detectKey spells it
KeyNamed(root, isMinor) == IF isMinor THEN root \o <<"m">> ELSE root

\* C23: detectKey returns a key whose root is the pitch class of the first
\* index holding the maximum energy (index 0 = C, ..., 11 = B) and whose mode
\* is minor exactly when chroma[3] > chroma[0]; the 'minor' tag is emitted
\* exactly when the mode is minor.
C23_KeyIsDominantPitchClass ==
    track.status = "analysed" =>
        /\ track.key = KeyNamed(PitchClasses[DominantChroma(track.chroma)],
                                track.chroma[4] > track.chroma[1])
        /\ InList(track.tags, "minor") <=> track.chroma[4] > track.chroma[1]
        /\ InList(track.tags, "major") <=> ~(track.chroma[4] > track.chroma[1])

\* the bins of a spectrum whose frequency lies in the musical range
MusicalBins(fft, bins, rate) ==
    {b \in bins : b * rate > 80 * fftSize /\ b * rate < 5000 * fftSize}

\* the spectrum InstrumentDetector.calculateChromaFeatures looks at
DetectorSpectrum == simpleFFT(file.buf, file.timbre, 0, fftSize)

\* C24: every spectral bin whose frequency lies in 80 Hz .. 5000 Hz adds its
\* magnitude to exactly one chroma bin, the rounded semitone offset from
\* 440 Hz modulo 12 in 0..11, also when the offset is negative, so the chroma
\* total equals the total magnitude of the in-range bins.
C24_ChromaKeepsInRangeMagnitude ==
    detection.status \in {"features", "classified", "scored", "ok"} =>
        /\ SumSeq(detection.features.chroma) =
              SumOver(DetectorSpectrum.mag,
                      MusicalBins(DetectorSpectrum, LowerHalf(DetectorSpectrum), file.buf.rate))
        /\ \A b \in MusicalBins(DetectorSpectrum, LowerHalf(DetectorSpectrum), file.buf.rate) :
              detection.features.chroma[(Semitone(b * file.buf.rate) % 12) + 1]
                 >= DetectorSpectrum.mag[b]

(***************************************************************************)
(* Properties of the spectral rolloff, the windows and the attack time.    *)
(***************************************************************************)
\* the bins of the rolloff loop at which the cumulative magnitude from bin 0
\* has reached 85% of the total, for a total that is not zero
ReachedBins(fft) ==
    {i \in LowerHalf(fft) :
        100 * SumOver(fft.mag, {b \in DOMAIN fft.mag : b <= i})
           >= 85 * SumOver(fft.mag, DOMAIN fft.mag)}

\* C25: calculateSpectralRolloff returns the frequency of the smallest bin at
\* which the cumulative magnitude from bin 0 reaches 85% of the total, and the
\* Nyquist frequency sampleRate / 2 when the threshold is never reached, which
\* is the result for silent input.
C25_RolloffNyquistWhenSilent ==
    detection.status \in {"features", "classified", "scored", "ok"} =>
        /\ Silent(file.buf) =>
              detection.features.spectralRolloff = Num(file.buf.rate \div 2)
        /\ (~Silent(file.buf) /\ ReachedBins(DetectorSpectrum) = {}) =>
              detection.features.spectralRolloff = Num(file.buf.rate \div 2)
        /\ (~Silent(file.buf) /\ ReachedBins(DetectorSpectrum) # {}) =>
              detection.features.spectralRolloff =
                 Num(BinFrequency(SetMin(ReachedBins(DetectorSpectrum)), file.buf.rate))

\* C26: for every non-empty buffer, also one no longer than the window size,
\* each windowed stage processes at least one window: the envelope has at
\* least one value, onset detection looks at at least one window and the
\* AudioAnalyzer chroma accumulation transforms at least one window.
C26_ShortBufferOneWindow ==
    ((detection.status = "features" \/ track.status = "analysed") /\ Length(file.buf) > 0) =>
        /\ Len(calculateEnvelope(file.buf)) >= 1
        /\ Len(WindowStarts(Length(file.buf), windowSize, hopSize)) >= 1
        /\ Len(WindowStarts(Length(file.buf), fftSize, fftSize)) >= 1

\* the envelope windows, counted from 0, at or above 90% of the peak
AttackWindows(envelope) ==
    {k \in 0..(Len(envelope) - 1) : 10 * envelope[k + 1] >= 9 * MaxSeq(envelope)}

\* C27: the attack returned by calculateADSR is the elapsed time in seconds
\* until the envelope first reaches 90% of its peak: for the first envelope
\* window k at or above the threshold it is that window's start offset in
\* samples, k times the hop size, divided by the sample rate (in millionths).
C27_AttackIsElapsedTime ==
    (detection.status \in {"features", "classified", "scored", "ok"}
        /\ AttackWindows(calculateEnvelope(file.buf)) # {}) =>
        detection.features.attack =
            Num((SetMin(AttackWindows(calculateEnvelope(file.buf))) * hopSize * 1000000)
                   \div file.buf.rate)

\* C28: a zero-length buffer is never an error: every extractor returns a
\* defined zero or default value for it, zeroCrossingRate = 0, energy = 0,
\* spectralCentroid = 0, tempo = 120, attack = sustain = decay = 0, with no
\* division by the zero sample count.
C28_EmptyBufferDefaults ==
    (detection.status \in {"features", "classified", "scored", "ok"}
        /\ Length(file.buf) = 0) =>
        /\ detection.features.zeroCrossingRate = Num(0)
        /\ detection.features.energy = Num(0)
        /\ detection.features.spectralCentroid = Num(0)
        /\ detection.features.tempo = 120
        /\ detection.features.attack = Num(0)
        /\ detection.features.sustain = Num(0)
        /\ detection.features.decay = Num(0)

\* C29: after analyzeMIDIFiles on any batch, every successfully analysed file
\* has been counted in exactly one tempo bucket, one key and one time
\* signature: the totals of the tempos, keys and timeSignatures tables each
\* equal the number of successfully analysed files, whatever BPM number
\* appears in a filename.
C29_OneBucketPerFile ==
    midiAnalysis.status = "returned" =>
        /\ TotalCount(midiAnalysis.tempos) = Len(AnalysedFiles)
        /\ TotalCount(midiAnalysis.keys) = Len(AnalysedFiles)
        /\ TotalCount(midiAnalysis.timeSignatures) = Len(AnalysedFiles)

(***************************************************************************)
(* Property of the database and the retention store on a failed batch.     *)
(***************************************************************************)
\* C30: when addTracks or addSamples throws part-way through a batch and
\* rolls its transaction back, the retention store and its persisted copy
\* contain no item for any track or sample of that batch: none beyond the
\* items they held for these rows before the call.
C30_FailedBatchNotRetained ==
    addCall.threw =>
        /\ ItemsOf(retentionData, addCall.batch) <= addCall.retained
        /\ ItemsOf(storage, addCall.batch) <= addCall.stored
====
